---- MODULE Spec2Model ----
(***************************************************************************)
(* The quality-gate pipeline: the PipelineState record, the Quality Gate,  *)
(* Orchestrator.create_state / run_iteration / run_full, and the           *)
(* /api/iterate handler that drives run_iteration for a stored job.        *)
(*                                                                         *)
(* The collaborators that call the text-authoring service or external      *)
(* tools (generator, reviewer, tester, security engine) are modelled by    *)
(* what they write into the state; what they produce is an input drawn     *)
(* from Outcomes.  File content is a tag: "debug" stands for a source text *)
(* holding a pattern the security auto-fix rewrites, "fixed" for the       *)
(* rewritten text, "ok" for a text no auto-fix touches.                    *)
(***************************************************************************)
EXTENDS Integers, Sequences, FiniteSets, TLC

VARIABLES
    state,   \* the PipelineState the caller holds
    pc,      \* position of the running run_full call; "idle" between calls
    rf,      \* locals of the running (or last returned) run_full call
    op,      \* the caller's most recent operation
    calls    \* collaborators invoked by the most recent run_iteration call,
             \* each with the status it left

vars == <<state, pc, rf, op, calls>>

----------------------------------------------------------------------------
(* Program constants and model bounds                                      *)

hard_max_iterations == 5

no_callback_default == 2

\* errors is an unbounded list in the code; calls at the ceiling are allowed
\* while it is shorter than this.
MaxErrors == 1

\* Length of the issue lists the Quality Gate is evaluated on in SpecGate.
MaxIssues == 2

None == <<>>

Some(n) == <<n>>

\* Python truthiness of an optional int: None and 0 are falsy.
Truthy(x) == x # None /\ x[1] # 0

\* Python `x or d` for an optional int x.
OrElse(x, d) == IF Truthy(x) THEN x[1] ELSE d

Min(a, b) == IF a <= b THEN a ELSE b

Last(s) == s[Len(s)]

----------------------------------------------------------------------------
(* core/state.py                                                           *)

Severities == {"error", "warning", "info"}

FileEntry(path, content) == [path |-> path, content |-> content]

Issue(source, severity, file) ==
    [source |-> source, severity |-> severity, file |-> file]

Iteration(number, files, issues, lint_passed, tests_passed, security_passed) ==
    [number |-> number, files |-> files, issues |-> issues,
     lint_passed |-> lint_passed, tests_passed |-> tests_passed,
     security_passed |-> security_passed]

\* The dataclass defaults.  review_issues, test_issues, lint_passed,
\* tests_passed and security_issues are the attributes _review_issues,
\* _test_issues, _lint_passed, _tests_passed and _security_issues the agents
\* set on the state object; they start at the defaults run_iteration gives
\* to getattr.
PipelineState(max_iterations) ==
    [iterations |-> <<>>,
     current_files |-> <<>>,
     patch_instructions |-> <<>>,
     status |-> "planning",
     max_iterations |-> max_iterations,
     errors |-> <<>>,
     review_issues |-> <<>>,
     test_issues |-> <<>>,
     lint_passed |-> TRUE,
     tests_passed |-> TRUE,
     security_issues |-> <<>>]

----------------------------------------------------------------------------
(* core/quality.py                                                         *)

quality_gates_pass_counts_tests(iteration) ==
    LET errors == SelectSeq(iteration.issues, LAMBDA i : i.severity = "error")
    IN  Len(errors) = 0 /\ iteration.lint_passed /\ iteration.tests_passed
                        /\ iteration.security_passed

quality_gates_pass(iteration) ==
    LET errors == SelectSeq(iteration.issues, LAMBDA i : i.severity = "error")
    IN  Len(errors) = 0 /\ iteration.lint_passed /\ iteration.security_passed

----------------------------------------------------------------------------
(* What the collaborators can produce in one iteration                     *)

PyPaths == {"app.py"}

App(content) == <<FileEntry("app.py", content)>>

Outcome(parsed, review, test, lint, security) ==
    [parsed |-> parsed, review |-> review, test |-> test, lint |-> lint,
     security |-> security]

\* A clean run whose source held an auto-fixable pattern; a run with only
\* warning and info findings; review and import-check errors; a lint
\* failure alone; a security error; a generation that parsed to no file.
Outcomes ==
    { Outcome(App("debug"), <<>>, <<>>, TRUE, <<>>),
      Outcome(App("ok"), <<Issue("reviewer", "warning", "app.py")>>, <<>>, TRUE,
              <<Issue("security", "info", "app.py")>>),
      Outcome(App("ok"), <<Issue("reviewer", "error", "app.py")>>,
              <<Issue("tester", "error", "requirements.txt")>>, TRUE, <<>>),
      Outcome(App("ok"), <<>>, <<Issue("tester", "warning", "app.py")>>, FALSE, <<>>),
      Outcome(App("ok"), <<>>, <<>>, TRUE,
              <<Issue("security", "error", "app.py")>>),
      Outcome(<<>>, <<>>, <<>>, TRUE, <<>>) }

\* The max_iterations arguments a caller passes to create_state and to
\* run_full.
RequestedCaps == {None, Some(1), Some(999)}

RunFullCaps == RequestedCaps \cup {Some(0), Some(2), Some(-1)}

----------------------------------------------------------------------------
(* agents/*.py, as far as they write the state                             *)

Paths(files) == {files[k].path : k \in 1..Len(files)}

generator_run(s, parsed) ==
    LET is_patching == s.current_files # <<>> /\ s.patch_instructions # <<>>
        patched_paths == Paths(parsed)
        kept == SelectSeq(s.current_files, LAMBDA f : f.path \notin patched_paths)
    IN  [s EXCEPT !.status = "generating",
                  !.current_files = IF is_patching THEN kept \o parsed ELSE parsed,
                  !.patch_instructions = <<>>]

reviewer_run(s, result) ==
    IF s.current_files = <<>>
    THEN [s EXCEPT !.status = "reviewing"]
    ELSE [s EXCEPT !.status = "reviewing", !.review_issues = result]

tester_run_keeps_status(s, issues, lint_passed) ==
    [s EXCEPT !.test_issues = issues,
              !.lint_passed = lint_passed,
              !.tests_passed = \A k \in 1..Len(issues) : issues[k].severity # "error"]

tester_run(s, issues, lint_passed) ==
    [s EXCEPT !.status = "testing",
              !.test_issues = issues,
              !.lint_passed = lint_passed,
              !.tests_passed = \A k \in 1..Len(issues) : issues[k].severity # "error"]

AutoFix(f) ==
    IF f.path \in PyPaths /\ f.content = "debug" THEN [f EXCEPT !.content = "fixed"]
    ELSE f

RECURSIVE AutoFixAll(_)
AutoFixAll(files) ==
    IF files = <<>> THEN <<>>
    ELSE <<AutoFix(Head(files))>> \o AutoFixAll(Tail(files))

\* The auto-fix pass rewrites file content in place; the issues found by the
\* scans are the input `issues`.
security_run(s, issues) ==
    [s EXCEPT !.status = "security",
              !.current_files = AutoFixAll(@),
              !.security_issues = issues]

PathOrder == <<"README.md", "app.py", "requirements.txt">>

PathRank(p) == CHOOSE k \in 1..Len(PathOrder) : PathOrder[k] = p

KeyLeqIgnoresSeverity(a, b) == PathRank(a.file) <= PathRank(b.file)

\* The sort key of patch_composer: (0 if error else 1, file).
KeyLeq(a, b) ==
    LET ra == IF a.severity = "error" THEN 0 ELSE 1
        rb == IF b.severity = "error" THEN 0 ELSE 1
    IN  ra < rb \/ (ra = rb /\ PathRank(a.file) <= PathRank(b.file))

\* x placed after the last element whose key is <= x's key.
RECURSIVE InsertByKey(_, _)
InsertByKey(s, x) ==
    IF s = <<>> THEN <<x>>
    ELSE IF KeyLeq(Last(s), x) THEN Append(s, x)
    ELSE Append(InsertByKey(SubSeq(s, 1, Len(s) - 1), x), Last(s))

\* list.sort(key=...): stable.
RECURSIVE SortByKey(_)
SortByKey(s) ==
    IF s = <<>> THEN <<>>
    ELSE InsertByKey(SortByKey(SubSeq(s, 1, Len(s) - 1)), Last(s))

\* patch_instructions is kept as the list of issues the text enumerates;
\* the empty list is the empty string.
patch_composer_run(s, all_issues) ==
    LET actionable ==
            SelectSeq(all_issues, LAMBDA i : i.severity \in {"error", "warning"})
    IN  [s EXCEPT !.patch_instructions = SortByKey(actionable)]

planner_run(s) == [s EXCEPT !.status = "planning"]

readme_writer_run(s) ==
    IF s.current_files = <<>> THEN s
    ELSE [s EXCEPT !.current_files = Append(@, FileEntry("README.md", "ok"))]

----------------------------------------------------------------------------
(* core/orchestrator.py                                                    *)

create_state(max_iterations) ==
    PipelineState(OrElse(max_iterations, hard_max_iterations))

plan(s) == planner_run(s)

AtCeilingOffByOne(s) == Len(s.iterations) > hard_max_iterations

\* The guard of run_iteration.
AtCeiling(s) == Len(s.iterations) >= hard_max_iterations

gate_status_inverted(iteration) ==
    IF quality_gates_pass(iteration) THEN "awaiting_approval" ELSE "done"

\* The status run_iteration sets from the Quality Gate.
gate_status(iteration) ==
    IF quality_gates_pass(iteration) THEN "done" ELSE "awaiting_approval"

LimitMessage == "Hard safety limit reached (5). Cannot run more iterations."

\* One run_iteration call whose collaborators produce o: the state returned
\* and the collaborators invoked, in order.
refuse_keeps_status(s) == [s EXCEPT !.errors = Append(@, LimitMessage)]

\* The body of the guard of run_iteration.
refuse(s) == [s EXCEPT !.status = "done", !.errors = Append(@, LimitMessage)]

iteration_num_from_zero(s) == Len(s.iterations)

\* iteration_num, taken before the collaborators run.
iteration_num(s) == Len(s.iterations) + 1

\* run_iteration below its guard: the four stages, the Iteration with the
\* number taken on entry, the gate and the patch composer.
run_stages(s, o, number) ==
      LET s1 == generator_run(s, o.parsed)
          s2 == reviewer_run(s1, o.review)
          s3 == tester_run(s2, o.test, o.lint)
          s4 == security_run(s3, o.security)
          all_issues == s4.review_issues \o s4.test_issues \o s4.security_issues
          security_passed ==
              \A k \in 1..Len(s4.security_issues) :
                  s4.security_issues[k].severity # "error"
          iteration == Iteration(number, s4.current_files, all_issues,
                                 s4.lint_passed, s4.tests_passed, security_passed)
          s5 == [s4 EXCEPT !.iterations = Append(@, iteration)]
          stages == <<[agent |-> "generator", status |-> s1.status],
                      [agent |-> "reviewer", status |-> s2.status],
                      [agent |-> "tester", status |-> s3.status],
                      [agent |-> "security", status |-> s4.status]>>
      IN  IF gate_status(iteration) = "done"
          THEN [state |-> [s5 EXCEPT !.status = "done"], calls |-> stages]
          ELSE [state |-> patch_composer_run(
                              [s5 EXCEPT !.status = "awaiting_approval"], all_issues),
                calls |-> Append(stages, [agent |-> "patch_composer",
                                          status |-> "awaiting_approval"])]

run_iteration(s, o) ==
    IF AtCeiling(s)
    THEN [state |-> refuse(s), calls |-> <<>>]
    ELSE run_stages(s, o, iteration_num(s))

generate_readme(s) ==
    IF s.current_files = <<>> THEN s
    ELSE IF "README.md" \in Paths(s.current_files) THEN s
    ELSE readme_writer_run(s)

\* loop_limit of run_full.
LoopLimit(on_iteration, max_iterations) ==
    IF on_iteration THEN hard_max_iterations
    ELSE Min(OrElse(max_iterations, no_callback_default), hard_max_iterations)

\* The test of `for i in range(loop_limit)` before pass i (0-based).
LoopPc(i, loop_limit) == IF i < loop_limit THEN "loop" ELSE "finish"

NoRun ==
    [on_iteration |-> FALSE, loop_limit |-> 0, i |-> 0,
     runs |-> 0, asked |-> 0, arg |-> <<>>, declined |-> FALSE]

----------------------------------------------------------------------------
(* The state machine                                                       *)

Init ==
    /\ state = create_state(None)
    /\ pc = "idle"
    /\ rf = NoRun
    /\ op = "create_state"
    /\ calls = <<>>

\* The caller is between calls: no run_full is in progress.
Idle == pc \in {"idle", "returned"}

\* errors only grows; a call that would append to it is taken while it is
\* short of MaxErrors.
ErrorsRoom(s) == AtCeiling(s) => Len(s.errors) < MaxErrors

CreateState(max_iterations) ==
    /\ Idle
    /\ state' = create_state(max_iterations)
    /\ pc' = "idle"
    /\ rf' = NoRun
    /\ op' = "create_state"
    /\ calls' = <<>>

RunIteration(o) ==
    /\ Idle
    /\ ErrorsRoom(state)
    /\ LET r == run_iteration(state, o)
       IN  /\ state' = r.state
           /\ calls' = r.calls
    /\ pc' = "idle"
    /\ rf' = NoRun
    /\ op' = "run_iteration"

\* run_full up to the loop: create_state (max_iterations is not passed on)
\* and plan.
RunFullStart(max_iterations, on_iteration) ==
    /\ Idle
    /\ LET loop_limit == LoopLimit(on_iteration, max_iterations)
       IN  /\ rf' = [NoRun EXCEPT !.on_iteration = on_iteration,
                                  !.loop_limit = loop_limit]
           /\ pc' = LoopPc(0, loop_limit)
    /\ state' = plan(create_state(None))
    /\ op' = "run_full"
    /\ calls' = <<>>

\* state = self.run_iteration(state) in the loop body.
RunFullIterate(o) ==
    /\ pc = "loop"
    /\ ErrorsRoom(state)
    /\ LET r == run_iteration(state, o)
       IN  /\ state' = r.state
           /\ calls' = r.calls
    /\ rf' = [rf EXCEPT !.runs = @ + 1]
    /\ pc' = "check"
    /\ UNCHANGED op

\* The rest of the loop body up to the call of on_iteration.
RunFullCheck ==
    /\ pc = "check"
    /\ IF state.status = "done"
       THEN /\ pc' = "finish"
            /\ UNCHANGED <<state, rf>>
       ELSE IF state.status = "awaiting_approval"
       THEN IF rf.on_iteration
            THEN /\ pc' = "callback"
                 /\ rf' = [rf EXCEPT !.asked = @ + 1, !.arg = Last(state.iterations)]
                 /\ UNCHANGED state
            ELSE /\ pc' = "finish"
                 /\ state' = [state EXCEPT !.status = "done"]
                 /\ UNCHANGED rf
       ELSE /\ pc' = LoopPc(rf.i + 1, rf.loop_limit)
            /\ rf' = [rf EXCEPT !.i = @ + 1]
            /\ UNCHANGED state
    /\ UNCHANGED <<op, calls>>

RunFullCallbackIgnoresDecline(should_continue) ==
    /\ pc = "callback"
    /\ rf' = [rf EXCEPT !.i = @ + 1, !.declined = ~should_continue]
    /\ pc' = LoopPc(rf.i + 1, rf.loop_limit)
    /\ UNCHANGED <<state, op, calls>>

\* on_iteration returns should_continue.
RunFullCallback(should_continue) ==
    /\ pc = "callback"
    /\ IF ~should_continue
       THEN /\ state' = [state EXCEPT !.status = "done"]
            /\ rf' = [rf EXCEPT !.declined = TRUE]
            /\ pc' = "finish"
       ELSE /\ rf' = [rf EXCEPT !.i = @ + 1]
            /\ pc' = LoopPc(rf.i + 1, rf.loop_limit)
            /\ UNCHANGED state
    /\ UNCHANGED <<op, calls>>

RunFullFinishKeepsStatus ==
    /\ pc = "finish"
    /\ state' = generate_readme(state)
    /\ pc' = "returned"
    /\ UNCHANGED <<rf, op, calls>>

\* After the loop: README, then the final status.  The files written to
\* output_dir are not part of the state.
RunFullFinish ==
    /\ pc = "finish"
    /\ LET s == generate_readme(state)
       IN  state' = IF s.status # "failed" THEN [s EXCEPT !.status = "done"] ELSE s
    /\ pc' = "returned"
    /\ UNCHANGED <<rf, op, calls>>

(* server.py: /api/iterate for the stored job holding `state`.  The lookup *)
(* of the job by id is left out: the job is present and has not expired.   *)

ApiIterateNoDoneCheck(o) ==
    /\ Idle
    /\ ErrorsRoom(state)
    /\ LET effective_max == Min(state.max_iterations, hard_max_iterations)
       IN  IF Len(state.iterations) >= effective_max
           THEN /\ op' = "api_iterate_400"
                /\ calls' = <<>>
                /\ UNCHANGED state
           ELSE LET r == run_iteration(state, o)
                IN  /\ state' = IF r.state.status = "done"
                                THEN generate_readme(r.state) ELSE r.state
                    /\ calls' = r.calls
                    /\ op' = "api_iterate"
    /\ pc' = "idle"
    /\ rf' = NoRun

ApiIterate(o) ==
    /\ Idle
    /\ ErrorsRoom(state)
    /\ LET effective_max == Min(state.max_iterations, hard_max_iterations)
       IN  IF state.status = "done"
           THEN /\ op' = "api_iterate_400"
                /\ calls' = <<>>
                /\ UNCHANGED state
           ELSE IF Len(state.iterations) >= effective_max
           THEN /\ op' = "api_iterate_400"
                /\ calls' = <<>>
                /\ UNCHANGED state
           ELSE LET r == run_iteration(state, o)
                IN  /\ state' = IF r.state.status = "done"
                                THEN generate_readme(r.state) ELSE r.state
                    /\ calls' = r.calls
                    /\ op' = "api_iterate"
    /\ pc' = "idle"
    /\ rf' = NoRun

Next ==
    \/ \E m \in RequestedCaps : CreateState(m)
    \/ \E o \in Outcomes : RunIteration(o)
    \/ \E o \in Outcomes : ApiIterate(o)
    \/ \E m \in RunFullCaps, cb \in BOOLEAN : RunFullStart(m, cb)
    \/ \E o \in Outcomes : RunFullIterate(o)
    \/ RunFullCheck
    \/ \E b \in BOOLEAN : RunFullCallback(b)
    \/ RunFullFinish

Spec == Init /\ [][Next]_vars

----------------------------------------------------------------------------
(* The Quality Gate on its own: every Iteration with up to MaxIssues       *)
(* issues and every combination of the three flags.                        *)

RECURSIVE SeqsUpTo(_, _)
SeqsUpTo(S, n) ==
    IF n = 0 THEN {<<>>}
    ELSE LET shorter == SeqsUpTo(S, n - 1)
         IN  shorter \cup {Append(q, x) : q \in shorter, x \in S}

GateIssues == {Issue("reviewer", sev, "app.py") : sev \in Severities}

GateIterations ==
    {Iteration(1, App("ok"), issues, lint, tests, sec) :
        issues \in SeqsUpTo(GateIssues, MaxIssues),
        lint \in BOOLEAN, tests \in BOOLEAN, sec \in BOOLEAN}

InitGate ==
    /\ \E it \in GateIterations :
           state = [PipelineState(hard_max_iterations) EXCEPT
                        !.iterations = <<it>>, !.current_files = it.files]
    /\ pc = "gate"
    /\ rf = NoRun
    /\ op = "make_iteration"
    /\ calls = <<>>

\* Lines 122-125 of run_iteration applied to the Iteration at hand.
GateApply ==
    /\ pc = "gate"
    /\ state' = [state EXCEPT !.status = gate_status(Last(state.iterations))]
    /\ pc' = "gated"
    /\ op' = "quality_gates_pass"
    /\ UNCHANGED <<rf, calls>>

NextGate == GateApply

SpecGate == InitGate /\ [][NextGate]_vars

----------------------------------------------------------------------------
(* Fair run_full: the collaborators and the callback return, so a started  *)
(* run_full call keeps taking its next step.                               *)

RunFullStep ==
    \/ \E o \in Outcomes : RunFullIterate(o)
    \/ RunFullCheck
    \/ \E b \in BOOLEAN : RunFullCallback(b)
    \/ RunFullFinish

NextRunFull ==
    \/ \E m \in RunFullCaps, cb \in BOOLEAN : RunFullStart(m, cb)
    \/ RunFullStep

SpecRunFull == Init /\ [][NextRunFull]_vars /\ WF_vars(RunFullStep)

----------------------------------------------------------------------------
(* core/sandbox.py: run_in_sandbox on its own.  `state` holds the last     *)
(* call and what came of it.                                               *)

sandbox_timeout == 30

allowed_commands == {"python3", "pip", "flake8", "pytest", "black"}

raise_ValueError(stage) ==
    [raised |-> "ValueError", stage |-> stage, spawned |-> FALSE,
     result |-> None]

\* subprocess.run and the two except clauses.
subprocess_run(executable, timeout, outcome) ==
    [raised |-> "",
     stage |-> "run",
     spawned |-> TRUE,
     result |->
        CASE outcome = "exit0" -> <<"out", "", 0>>
          [] outcome = "exit1" -> <<"", "err", 1>>
          [] outcome = "TimeoutExpired" -> <<"", <<"timed out", timeout>>, -1>>
          [] outcome = "FileNotFoundError" ->
                 <<"", <<"not found", executable>>, -1>>]

run_in_sandbox_without_allowlist(command, cwd, timeout, outcome) ==
    LET t == IF timeout = None THEN sandbox_timeout ELSE timeout[1] IN
    IF command.argv = <<>> \/ ~command.is_list
    THEN raise_ValueError("command")
    ELSE IF cwd \notin {"dir", "link_to_dir"}
    THEN raise_ValueError("cwd")
    ELSE subprocess_run(command.argv[1], t, outcome)

\* `command` is a list of strings or a value that is not a list (a tuple
\* with the same elements); `cwd` is what the path names in the file system,
\* and os.path.isdir(os.path.realpath(cwd)) holds for a directory and for a
\* link to one; `outcome` is what subprocess.run does once it is called.
run_in_sandbox(command, cwd, timeout, outcome) ==
    LET t == IF timeout = None THEN sandbox_timeout ELSE timeout[1] IN
    IF command.argv = <<>> \/ ~command.is_list
    THEN raise_ValueError("command")
    ELSE IF command.argv[1] \notin allowed_commands
    THEN raise_ValueError("allowlist")
    ELSE IF cwd \notin {"dir", "link_to_dir"}
    THEN raise_ValueError("cwd")
    ELSE subprocess_run(command.argv[1], t, outcome)

InitSandbox ==
    /\ state = [command |-> [is_list |-> TRUE, argv |-> <<>>],
                cwd |-> "dir", timeout |-> None,
                ret |-> raise_ValueError("command")]
    /\ pc = "sandbox"
    /\ rf = NoRun
    /\ op = "none"
    /\ calls = <<>>

RunInSandbox(command, cwd, timeout, outcome) ==
    /\ pc = "sandbox"
    /\ state' = [command |-> command, cwd |-> cwd, timeout |-> timeout,
                 ret |-> run_in_sandbox(command, cwd, timeout, outcome)]
    /\ op' = "run_in_sandbox"
    /\ UNCHANGED <<pc, rf, calls>>

SpecSandbox ==
    InitSandbox /\
    [][\E command \in
            {[is_list |-> TRUE, argv |-> a] :
                a \in {<<>>, <<"python3", "--version">>, <<"pytest">>,
                       <<"flake8", "app.py">>, <<"rm", "-rf", "/">>,
                       <<"curl", "http://example.com">>, <<"bash", "-c">>,
                       <<"pip-audit">>, <<"semgrep">>, <<"">>}}
            \cup {[is_list |-> FALSE, argv |-> <<"python3", "--version">>]},
          cwd \in {"dir", "link_to_dir", "file", "missing"},
          timeout \in {None, Some(1)},
          outcome \in {"exit0", "exit1", "TimeoutExpired", "FileNotFoundError"} :
            RunInSandbox(command, cwd, timeout, outcome)]_vars

----------------------------------------------------------------------------
(* agents/security.py: the two optional tool runners, _run_pip_audit and   *)
(* _run_semgrep, as SecurityAgent.run calls them one after the other.      *)
(* A tool's stdout is a JSON text; json.loads turns it into a value.       *)

\* A value json.loads returns: t is "null", "num", "str", "list" or "dict"
\* and v what it holds.  t = "invalid" stands for a stdout that is not JSON,
\* for which json.loads raises JSONDecodeError.
J(t, v) == [t |-> t, v |-> v]

\* The stdout texts the tools are run against.
Stdout(k) ==
    LET dict(f) == J("dict", f)
        list(items) == J("list", items)
        num == J("num", <<>>)
        empty == dict([x \in {} |-> num])
        vuln == dict([id |-> J("str", "CVE-2023-32681"),
                      description |-> J("str", "leak"),
                      fix_versions |-> list(<<J("str", "2.31.0")>>)])
        dep(vulns) == dict([name |-> J("str", "requests"),
                            version |-> J("str", "2.25.0"), vulns |-> vulns])
        finding(severity) ==
            dict([check_id |-> J("str", "rule"), path |-> J("str", "app.py"),
                  start |-> dict([line |-> num]),
                  extra |-> dict([message |-> J("str", "m"),
                                  severity |-> J("str", severity)])])
        dependencies(v) == dict([dependencies |-> v])
        results(v) == dict([results |-> v])
    IN  CASE k = 1 -> J("invalid", <<>>)
          [] k = 2 -> J("null", <<>>)
          [] k = 3 -> num
          [] k = 4 -> J("str", "s")
          [] k = 5 -> list(<<>>)
          [] k = 6 -> empty
          [] k = 7 -> dependencies(list(<<>>))
          [] k = 8 -> dependencies(num)
          [] k = 9 -> dependencies(list(<<num>>))
          [] k = 10 -> dependencies(list(<<dep(list(<<vuln>>))>>))
          [] k = 11 -> dependencies(list(<<dict([vulns |-> list(<<empty>>)])>>))
          [] k = 12 -> dependencies(list(<<dep(list(<<
                            dict([description |-> num])>>))>>))
          [] k = 13 -> dependencies(list(<<dep(J("null", <<>>))>>))
          [] k = 14 -> dependencies(list(<<dep(list(<<vuln>>)), num>>))
          [] k = 15 -> dependencies(list(<<dep(list(<<num>>))>>))
          [] k = 16 -> dependencies(list(<<dep(list(<<>>))>>))
          [] k = 17 -> dependencies(list(<<dep(list(<<vuln>>)),
                            dict([vulns |-> list(<<vuln>>)])>>))
          [] k = 18 -> results(list(<<>>))
          [] k = 19 -> results(list(<<finding("ERROR")>>))
          [] k = 20 -> results(list(<<finding("warning")>>))
          [] k = 21 -> results(list(<<num>>))
          [] k = 22 -> results(list(<<dict([extra |-> J("str", "s")])>>))
          [] k = 23 -> results(list(<<dict([path |-> num])>>))
          [] k = 24 -> results(list(<<empty>>))
          [] k = 25 -> results(list(<<dict([extra |-> dict([severity |-> num])])>>))
          [] k = 26 -> results(J("str", "ab"))

\* What a call comes to: the exception it raises ("" for none) and the value
\* it returns or had built when the exception was raised.
Ret(exc, v) == [exc |-> exc, v |-> v]

\* d.get(key, default)
JGet(d, key, default) ==
    IF d.t # "dict" THEN Ret("AttributeError", default)
    ELSE IF key \in DOMAIN d.v THEN Ret("", d.v[key])
    ELSE Ret("", default)

\* The elements a for loop over the value visits.
JIter(x) ==
    CASE x.t = "list" -> Ret("", x.v)
      [] x.t = "str" -> Ret("", <<J("str", "c")>>)
      [] x.t = "dict" -> Ret("", <<>>)
      [] OTHER -> Ret("TypeError", <<>>)

\* The loop over dep.get("vulns", []) with the Issue(...) it builds.
RECURSIVE pip_audit_vulns(_, _, _, _)
pip_audit_vulns(dep, vulns, k, issues) ==
    IF k > Len(vulns) THEN Ret("", issues)
    ELSE LET vuln == vulns[k] IN
         IF "name" \notin DOMAIN dep.v THEN Ret("KeyError", issues)
         ELSE IF vuln.t # "dict" THEN Ret("AttributeError", issues)
         ELSE IF JGet(vuln, "description", J("str", "")).v.t \notin {"str", "list"}
         THEN Ret("TypeError", issues)
         ELSE pip_audit_vulns(dep, vulns, k + 1,
                  Append(issues, Issue("security", "error", "requirements.txt")))

\* The loop over data.get("dependencies", []).
RECURSIVE pip_audit_deps(_, _, _)
pip_audit_deps(deps, k, issues) ==
    IF k > Len(deps) THEN Ret("", issues)
    ELSE LET g == JGet(deps[k], "vulns", J("list", <<>>))
             vulns == JIter(g.v)
         IN  IF g.exc # "" THEN Ret(g.exc, issues)
             ELSE IF vulns.exc # "" THEN Ret(vulns.exc, issues)
             ELSE LET r == pip_audit_vulns(deps[k], vulns.v, 1, issues) IN
                  IF r.exc # "" THEN r ELSE pip_audit_deps(deps, k + 1, r.v)

\* `except (json.JSONDecodeError, KeyError): pass`, then `return issues`.
except_pass(r) ==
    IF r.exc \in {"JSONDecodeError", "KeyError"} THEN Ret("", r.v) ELSE r

\* `requirements` tells whether current_files holds a requirements.txt
\* with non-blank content; `outcome` is what subprocess.run does.
run_pip_audit(requirements, outcome) ==
    IF ~requirements THEN Ret("", <<>>)
    ELSE IF outcome.kind \in {"FileNotFoundError", "TimeoutExpired"}
    THEN Ret("", <<>>)
    ELSE LET data == Stdout(outcome.stdout)
             g == JGet(data, "dependencies", J("list", <<>>))
             deps == JIter(g.v)
         IN  except_pass(
                 IF data.t = "invalid" THEN Ret("JSONDecodeError", <<>>)
                 ELSE IF g.exc # "" THEN Ret(g.exc, <<>>)
                 ELSE IF deps.exc # "" THEN Ret(deps.exc, <<>>)
                 ELSE pip_audit_deps(deps.v, 1, <<>>))

\* The loop over data.get("results", []).
RECURSIVE semgrep_findings(_, _, _)
semgrep_findings(findings, k, issues) ==
    IF k > Len(findings) THEN Ret("", issues)
    ELSE LET finding == findings[k]
             raw_path == JGet(finding, "path", J("str", ""))
             extra == JGet(finding, "extra", J("dict", <<>>))
             start == JGet(finding, "start", J("dict", <<>>))
             severity_raw == JGet(extra.v, "severity", J("str", "WARNING")).v
         IN  IF raw_path.exc # "" THEN Ret(raw_path.exc, issues)
             ELSE IF raw_path.v.t \in {"null", "num"} THEN Ret("TypeError", issues)
             ELSE IF extra.v.t # "dict" THEN Ret("AttributeError", issues)
             ELSE IF start.v.t # "dict" THEN Ret("AttributeError", issues)
             ELSE IF severity_raw.t # "str" THEN Ret("AttributeError", issues)
             ELSE semgrep_findings(findings, k + 1,
                      Append(issues,
                             Issue("semgrep",
                                   IF severity_raw.v \in {"ERROR", "error"}
                                   THEN "error" ELSE "warning",
                                   IF raw_path.v.t = "str"
                                   THEN raw_path.v.v ELSE "")))

\* `py_files` tells whether current_files holds a .py file.
run_semgrep(py_files, outcome) ==
    IF ~py_files THEN Ret("", <<>>)
    ELSE IF outcome.kind \in {"FileNotFoundError", "TimeoutExpired"}
    THEN Ret("", <<>>)
    ELSE LET data == Stdout(outcome.stdout)
             g == JGet(data, "results", J("list", <<>>))
             findings == JIter(g.v)
         IN  except_pass(
                 IF data.t = "invalid" THEN Ret("JSONDecodeError", <<>>)
                 ELSE IF g.exc # "" THEN Ret(g.exc, <<>>)
                 ELSE IF findings.exc # "" THEN Ret(findings.exc, <<>>)
                 ELSE semgrep_findings(findings.v, 1, <<>>))

\* Lines 90-91 of SecurityAgent.run: the issues the two runners add, or the
\* exception that leaves run.
optional_tool_runners(requirements, py_files, pip_audit, semgrep) ==
    LET p == run_pip_audit(requirements, pip_audit)
        s == run_semgrep(py_files, semgrep)
    IN  IF p.exc # "" THEN Ret(p.exc, <<>>)
        ELSE IF s.exc # "" THEN Ret(s.exc, <<>>)
        ELSE Ret("", p.v \o s.v)

\* The calls that start an external process, in order: the function called,
\* its command and its timeout argument.  _run_pip_audit starts one when
\* current_files holds a requirements.txt that is not blank, _run_semgrep
\* when it holds a .py file and _run_pip_audit did not raise.
process_starts(requirements, py_files, pip_audit) ==
    (IF requirements
     THEN <<[function |-> "subprocess.run", command |-> "pip-audit",
             timeout |-> 60]>>
     ELSE <<>>)
    \o (IF py_files /\ run_pip_audit(requirements, pip_audit).exc = ""
        THEN <<[function |-> "subprocess.run", command |-> "semgrep",
                timeout |-> 60]>>
        ELSE <<>>)

InitTools ==
    /\ state = [requirements |-> FALSE, py_files |-> FALSE,
                pip_audit |-> [kind |-> "FileNotFoundError", stdout |-> 0],
                semgrep |-> [kind |-> "FileNotFoundError", stdout |-> 0],
                started |-> <<>>,
                ret |-> Ret("", <<>>)]
    /\ pc = "tools"
    /\ rf = NoRun
    /\ op = "none"
    /\ calls = <<>>

OptionalToolRunners(requirements, py_files, pip_audit, semgrep) ==
    /\ pc = "tools"
    /\ state' = [requirements |-> requirements, py_files |-> py_files,
                 pip_audit |-> pip_audit, semgrep |-> semgrep,
                 started |-> process_starts(requirements, py_files, pip_audit),
                 ret |-> optional_tool_runners(requirements, py_files,
                                               pip_audit, semgrep)]
    /\ op' = "optional_tool_runners"
    /\ UNCHANGED <<pc, rf, calls>>

\* Each tool is missing, times out, or completes with one of the stdout
\* texts.
ToolOutcomes ==
    {[kind |-> "FileNotFoundError", stdout |-> 0],
     [kind |-> "TimeoutExpired", stdout |-> 0]}
    \cup {[kind |-> "completed", stdout |-> k] : k \in 1..26}

SpecTools ==
    InitTools /\
    [][\E requirements \in BOOLEAN, py_files \in BOOLEAN,
          pip_audit \in ToolOutcomes, semgrep \in ToolOutcomes :
            OptionalToolRunners(requirements, py_files, pip_audit,
                                semgrep)]_vars

----------------------------------------------------------------------------
(* agents/security.py, lines 43-66: the auto-fix pass and the line scan of *)
(* SecurityAgent.run for one .py file.  A content is a sequence of atoms;  *)
(* an atom is a piece of text the three auto-fix rules of config/rules.py  *)
(* tell apart.  "debug", "True" and "False" stand for the word in any      *)
(* letter case (the rules are compiled with re.IGNORECASE).  No other rule *)
(* of SECURITY_PATTERNS matches a text made of these atoms.                *)

\* Every text of up to MaxAtoms atoms is scanned, and every text of up to
\* MaxRuleAtoms atoms drawn from the atoms of one rule.
MaxAtoms == 4

MaxRuleAtoms == 5

\* The atom at position i, "" outside the text.
At(c, i) == IF i >= 1 /\ i <= Len(c) THEN c[i] ELSE ""

\* \b between positions i and i + 1: one side is an atom that begins and
\* ends with a word character, the other is not.
WordBoundary(c, i) ==
    LET WordAtoms == {"debug", "True", "False", "0.0.0.0", "127.0.0.1",
                      "SESSION_COOKIE_HTTPONLY"}
    IN  (At(c, i) \in WordAtoms) # (At(c, i + 1) \in WordAtoms)

\* \s* from position i: the first position that holds no white space.
RECURSIVE SkipSpace(_, _)
SkipSpace(c, i) == IF At(c, i) \in {" ", "\n"} THEN SkipSpace(c, i + 1) ELSE i

\* The regexes of the three rules, anchored at position i: the position of
\* the last atom of the match, 0 if there is none.
\*   "debug"           \bdebug\s*=\s*True\b            rules.py:18 and 22
\*   "bind"            ["']0\.0\.0\.0["']              rules.py:47
\*   "bind_fix"        (['"])0\.0\.0\.0\1              rules.py:51
\*   "httponly_fix"    SESSION_COOKIE_HTTPONLY['"]\s*\]\s*=\s*False\b
\*                                    rules.py:108 and 104 (first alternative)
\*   "httponly_plain"  (?<!\[)SESSION_COOKIE_HTTPONLY\s*=\s*False\b
\*                                    rules.py:104 (second alternative)
regex_match(re, c, i) ==
    LET Quotes == {"'", "\""}
        a == SkipSpace(c, i + 1)
        b == SkipSpace(c, a + 1)
        j == SkipSpace(c, i + 2)
        k == SkipSpace(c, j + 1)
        l == SkipSpace(c, k + 1)
    IN  CASE re = "debug" ->
                 IF /\ At(c, i) = "debug" /\ WordBoundary(c, i - 1)
                    /\ At(c, a) = "="
                    /\ At(c, b) = "True" /\ WordBoundary(c, b)
                 THEN b ELSE 0
          [] re = "bind" ->
                 IF /\ At(c, i) \in Quotes
                    /\ At(c, i + 1) = "0.0.0.0"
                    /\ At(c, i + 2) \in Quotes
                 THEN i + 2 ELSE 0
          [] re = "bind_fix" ->
                 IF /\ At(c, i) \in Quotes
                    /\ At(c, i + 1) = "0.0.0.0"
                    /\ At(c, i + 2) = At(c, i)
                 THEN i + 2 ELSE 0
          [] re = "httponly_fix" ->
                 IF /\ At(c, i) = "SESSION_COOKIE_HTTPONLY"
                    /\ At(c, i + 1) \in Quotes
                    /\ At(c, j) = "]"
                    /\ At(c, k) = "="
                    /\ At(c, l) = "False" /\ WordBoundary(c, l)
                 THEN l ELSE 0
          [] re = "httponly_plain" ->
                 IF /\ At(c, i - 1) # "["
                    /\ At(c, i) = "SESSION_COOKIE_HTTPONLY"
                    /\ At(c, a) = "="
                    /\ At(c, b) = "False" /\ WordBoundary(c, b)
                 THEN b ELSE 0

\* The rules with an auto-fix, in the order of SECURITY_PATTERNS.
FixRules == <<"debug", "bind", "httponly">>

\* The rule's pattern, anchored at i.
pattern_match(rule, c, i) ==
    CASE rule = "debug" -> regex_match("debug", c, i)
      [] rule = "bind" -> regex_match("bind", c, i)
      [] rule = "httponly" ->
             IF regex_match("httponly_fix", c, i) # 0
             THEN regex_match("httponly_fix", c, i)
             ELSE regex_match("httponly_plain", c, i)

\* The rule's fix_from, anchored at i.
fix_from_match(rule, c, i) ==
    CASE rule = "debug" -> regex_match("debug", c, i)
      [] rule = "bind" -> regex_match("bind_fix", c, i)
      [] rule = "httponly" -> regex_match("httponly_fix", c, i)

\* The rule's fix_to, expanded for the match c[i..e].
fix_to(rule, c, i, e) ==
    CASE rule = "debug" -> <<"debug", "=", "False">>
      [] rule = "bind" -> <<"'", "127.0.0.1", "'">>
      [] rule = "httponly" -> SubSeq(c, i, e - 1) \o <<"True">>

\* fix_from.sub(fix_to, content): the leftmost matches, not overlapping, are
\* replaced from left to right.
RECURSIVE fix_from_sub(_, _, _)
fix_from_sub(rule, c, i) ==
    IF i > Len(c) THEN <<>>
    ELSE LET e == fix_from_match(rule, c, i) IN
         IF e # 0 THEN fix_to(rule, c, i, e) \o fix_from_sub(rule, c, e + 1)
         ELSE <<c[i]>> \o fix_from_sub(rule, c, i + 1)

\* The first pass: every rule's fix in rule order, each on the result of the
\* one before.
RECURSIVE auto_fix_pass(_, _)
auto_fix_pass(content, r) ==
    IF r > Len(FixRules) THEN content
    ELSE auto_fix_pass(fix_from_sub(FixRules[r], content, 1), r + 1)

\* content.split("\n")
RECURSIVE split_lines(_, _, _)
split_lines(c, i, line) ==
    IF i > Len(c) THEN <<line>>
    ELSE IF c[i] = "\n" THEN <<line>> \o split_lines(c, i + 1, <<>>)
    ELSE split_lines(c, i + 1, Append(line, c[i]))

\* The inner loop of the second pass: every rule whose pattern.search(line)
\* succeeds adds an Issue.
RECURSIVE scan_line(_, _, _, _)
scan_line(file, line_num, line, r) ==
    IF r > Len(FixRules) THEN <<>>
    ELSE (IF \E i \in 1..Len(line) : pattern_match(FixRules[r], line, i) # 0
          THEN <<[source |-> "security",
                  severity |-> IF FixRules[r] = "httponly"
                               THEN "error" ELSE "warning",
                  file |-> file, line |-> line_num, rule |-> FixRules[r]]>>
          ELSE <<>>)
         \o scan_line(file, line_num, line, r + 1)

RECURSIVE scan_lines(_, _, _)
scan_lines(file, lines, n) ==
    IF n > Len(lines) THEN <<>>
    ELSE scan_line(file, n, lines[n], 1) \o scan_lines(file, lines, n + 1)

\* Lines 43-66 for the file f: the file after the first pass and the Issues
\* of the second pass.
fix_and_scan(f) ==
    LET content == auto_fix_pass(f.content, 1) IN
    [file |-> FileEntry(f.path, content),
     issues |-> scan_lines(f.path, split_lines(content, 1, <<>>), 1)]

\* A state holding one .py file that no security scan has seen yet.
InitFix ==
    /\ LET Atoms == {"debug", "=", "True", "False", "'", "\"", "0.0.0.0",
                     "SESSION_COOKIE_HTTPONLY", "]", " ", "\n"}
           BindAtoms == {"'", "\"", "0.0.0.0"}
           HttpOnlyAtoms == {"SESSION_COOKIE_HTTPONLY", "'", "]", "=",
                             "False", " "}
           DebugAtoms == {"debug", "=", "True", " ", "\n", "0.0.0.0"}
           Contents == SeqsUpTo(Atoms, MaxAtoms)
                       \cup SeqsUpTo(BindAtoms, MaxRuleAtoms)
                       \cup SeqsUpTo(HttpOnlyAtoms, MaxRuleAtoms)
                       \cup SeqsUpTo(DebugAtoms, MaxRuleAtoms)
       IN  \E c \in Contents :
               state = [original |-> c,
                        current_files |-> <<FileEntry("app.py", c)>>,
                        security_issues |-> <<>>,
                        first |-> [file |-> FileEntry("app.py", c),
                                   issues |-> <<>>],
                        runs |-> 0]
    /\ pc = "fix"
    /\ rf = NoRun
    /\ op = "none"
    /\ calls = <<>>

\* SecurityAgent.run on the state, up to twice in a row.  `first` keeps what
\* the first run left.
SecurityRun ==
    /\ pc = "fix"
    /\ state.runs < 2
    /\ LET r == fix_and_scan(state.current_files[1]) IN
       state' = [state EXCEPT
                    !.current_files = <<r.file>>,
                    !.security_issues = r.issues,
                    !.first = IF state.runs = 0 THEN r ELSE @,
                    !.runs = @ + 1]
    /\ op' = "security_run"
    /\ UNCHANGED <<pc, rf, calls>>

SpecFix == InitFix /\ [][SecurityRun]_vars

----------------------------------------------------------------------------
(* agents/security.py, lines 68-87 and _check_csrf: the scan of one        *)
(* template file.  A template content is a sequence of atoms: the start of *)
(* a form tag, attributes (each with the white space before it), the end   *)
(* of a tag, a token marker, other markup.  No rule of                     *)
(* HTML_SECURITY_PATTERNS matches a text made of these atoms, so the CSRF  *)
(* check is the only source of Issues for the file.                        *)

MaxTemplateAtoms == 4

\* A path is the sequence of its parts between dots; the extension is
\* "." + path.rsplit(".", 1)[-1] if "." in path else "".
ext(path) == IF Len(path) > 1 THEN <<".", Last(path)>> ELSE <<>>

\* The Issue _check_csrf returns, as a list: empty for None.
\*   has_post_form  <\s*form\b[^>]+method\s*=\s*["']post["']  (re.IGNORECASE)
\*   has_csrf       csrf|hidden_tag                           (re.IGNORECASE)
check_csrf(f) ==
    LET c == f.content
        GtAtoms == {">", "<p>text</p>"}
        has_post_form ==
            \E i \in 1..Len(c) : \E j \in (i + 1)..Len(c) :
                /\ c[i] = "<form"
                /\ \A k \in (i + 1)..(j - 1) : c[k] \notin GtAtoms
                /\ c[j] = " method=\"post\""
        has_csrf == \E i \in 1..Len(c) : c[i] = "{{ csrf_token() }}"
    IN  IF ~has_post_form THEN <<>>
        ELSE IF has_csrf THEN <<>>
        ELSE <<[source |-> "security", severity |-> "error", file |-> f.path,
                line |-> None, rule |-> "csrf"]>>

\* The template branch of the loop of SecurityAgent.run for the file f: not
\* a .py file, an extension of _TEMPLATE_EXTENSIONS, and a stack of
\* _COOKIE_AUTH_STACKS.
scan_template(stack, f) ==
    IF /\ ext(f.path) # <<".", "py">>
       /\ ext(f.path) \in {<<".", "html">>, <<".", "jinja2">>, <<".", "j2">>}
       /\ stack \in {"flask"}
    THEN check_csrf(f) ELSE <<>>

InitTemplate ==
    /\ \E c \in SeqsUpTo({"<form", " method=\"post\"", " method=post",
                          " method=\"get\"", " action=\"/x\"", ">",
                          "{{ csrf_token() }}", "<p>text</p>"},
                         MaxTemplateAtoms),
          path \in {<<"templates/form", "html">>, <<"form", "jinja2">>,
                    <<"notes", "txt">>},
          stack \in {"flask", "fastapi"} :
           state = [stack |-> stack,
                    current_files |-> <<FileEntry(path, c)>>,
                    security_issues |-> <<>>]
    /\ pc = "template"
    /\ rf = NoRun
    /\ op = "none"
    /\ calls = <<>>

ScanTemplate ==
    /\ pc = "template"
    /\ state' = [state EXCEPT !.security_issues =
                     scan_template(state.stack, state.current_files[1])]
    /\ pc' = "template_scanned"
    /\ op' = "security_run"
    /\ UNCHANGED <<rf, calls>>

SpecTemplate == InitTemplate /\ [][ScanTemplate]_vars

----------------------------------------------------------------------------
(* agents/security.py, _scan_patch_drift: the scan of one current file     *)
(* against the files of the last Iteration.  A content is the sequence of  *)
(* its lines as splitlines(keepends=True) gives them: a line is its text   *)
(* and its line ending, and only the last line may have no ending.         *)

MaxLines == 3

\* The positions in _ALL_PATTERNS of the rules whose pattern.search(text)
\* succeeds: 1 is the hardcoded-secret rule, 3 the eval rule, 28 the
\* "| safe" rule, the first of HTML_SECURITY_PATTERNS.
matching_rules(text) ==
    CASE text = "password = 'p'" -> {1}
      [] text = "eval(x)" -> {3}
      [] text = "password = 'p'; eval(x)" -> {1, 3}
      [] text = "{{ v | safe }}" -> {28}
      [] text = "{{ v | safe }} eval(x)" -> {3, 28}
      [] OTHER -> {}

\* SequenceMatcher.find_longest_match on a[alo..ahi] and b[blo..bhi]
\* (positions from 1, both ends included): <<i, j, k>> with
\* a[i..i+k-1] = b[j..j+k-1], k the largest there is, and among those the
\* block that starts first in a and then first in b; k = 0 if no line
\* matches.
find_longest_match(a, b, alo, ahi, blo, bhi) ==
    LET blocks == {m \in (alo..ahi) \X (blo..bhi) \X (1..(ahi - alo + 1)) :
                      /\ m[1] + m[3] - 1 <= ahi
                      /\ m[2] + m[3] - 1 <= bhi
                      /\ \A d \in 0..(m[3] - 1) : a[m[1] + d] = b[m[2] + d]}
        before(m, n) == \/ m[3] > n[3]
                        \/ m[3] = n[3] /\ m[1] < n[1]
                        \/ m[3] = n[3] /\ m[1] = n[1] /\ m[2] <= n[2]
    IN  IF blocks = {} THEN <<alo, blo, 0>>
        ELSE CHOOSE m \in blocks : \A n \in blocks : before(m, n)

\* SequenceMatcher.get_matching_blocks: the positions of b inside a matching
\* block.  get_opcodes tags every other position of b "insert" or "replace".
RECURSIVE matching_blocks(_, _, _, _, _, _)
matching_blocks(a, b, alo, ahi, blo, bhi) ==
    IF alo > ahi \/ blo > bhi THEN {}
    ELSE LET m == find_longest_match(a, b, alo, ahi, blo, bhi) IN
         IF m[3] = 0 THEN {}
         ELSE matching_blocks(a, b, alo, m[1] - 1, blo, m[2] - 1)
              \cup (m[2]..(m[2] + m[3] - 1))
              \cup matching_blocks(a, b, m[1] + m[3], ahi, m[2] + m[3], bhi)

\* The loop over added_lines: the first matching rule of a line adds an
\* Issue and ends the search for that line.
RECURSIVE scan_added_lines(_, _, _, _)
scan_added_lines(path, new_lines, added, n) ==
    IF n > Len(new_lines) THEN <<>>
    ELSE LET rules == matching_rules(new_lines[n].text) IN
         (IF n \in added /\ rules # {}
          THEN <<[source |-> "security", file |-> path, line |-> n,
                  rule |-> CHOOSE r \in rules : \A q \in rules : r <= q,
                  message |-> "[patch-drift] "]>>
          ELSE <<>>)
         \o scan_added_lines(path, new_lines, added, n + 1)

scan_patch_drift_every_line(iterations, f) ==
    IF iterations = <<>> THEN [added |-> {}, issues |-> <<>>]
    ELSE LET files == Last(iterations).files
             prev == {k \in 1..Len(files) : files[k].path = f.path}
             old_content == IF prev = {} THEN <<>>
                            ELSE files[CHOOSE k \in prev : \A q \in prev : k >= q].content
             added == 1..Len(f.content)
         IN  IF old_content = f.content THEN [added |-> {}, issues |-> <<>>]
             ELSE [added |-> added,
                   issues |-> scan_added_lines(f.path, f.content, added, 1)]

\* _scan_patch_drift for the current file f: the positions of added_lines
\* and the Issues.  prev_files is a dict, so the last file of a path counts.
scan_patch_drift(iterations, f) ==
    IF iterations = <<>> THEN [added |-> {}, issues |-> <<>>]
    ELSE LET files == Last(iterations).files
             prev == {k \in 1..Len(files) : files[k].path = f.path}
             old_content == IF prev = {} THEN <<>>
                            ELSE files[CHOOSE k \in prev : \A q \in prev : k >= q].content
             added == (1..Len(f.content)) \
                      matching_blocks(old_content, f.content,
                                      1, Len(old_content), 1, Len(f.content))
         IN  IF old_content = f.content THEN [added |-> {}, issues |-> <<>>]
             ELSE [added |-> added,
                   issues |-> scan_added_lines(f.path, f.content, added, 1)]

\* The contents of up to MaxLines lines.
LineContents ==
    LET texts == SeqsUpTo({"x = 1", "password = 'p'", "password = 'p'; eval(x)"},
                          MaxLines)
        lines(t, last) ==
            [n \in 1..Len(t) |->
                [text |-> t[n],
                 end |-> IF n < Len(t) THEN "\n" ELSE last]]
    IN  {lines(t, "\n") : t \in texts} \cup {lines(t, "") : t \in texts}

\* A state with one current file and no Iteration, an Iteration without the
\* file's path, or an Iteration holding the path.
InitDrift ==
    /\ \E new \in LineContents, old \in LineContents,
          prev \in {"none", "absent", "present"} :
           /\ prev # "present" => old = <<>>
           /\ state = [iterations |->
                          CASE prev = "none" -> <<>>
                            [] prev = "absent" ->
                                   <<[files |-> <<FileEntry("other.py", new)>>]>>
                            [] prev = "present" ->
                                   <<[files |-> <<FileEntry("app.py", old)>>]>>,
                       current_files |-> <<FileEntry("app.py", new)>>,
                       added |-> {},
                       security_issues |-> <<>>]
    /\ pc = "drift"
    /\ rf = NoRun
    /\ op = "none"
    /\ calls = <<>>

ScanPatchDrift ==
    /\ pc = "drift"
    /\ LET r == scan_patch_drift(state.iterations, state.current_files[1]) IN
       state' = [state EXCEPT !.added = r.added, !.security_issues = r.issues]
    /\ pc' = "drift_scanned"
    /\ op' = "scan_patch_drift"
    /\ UNCHANGED <<rf, calls>>

SpecDrift == InitDrift /\ [][ScanPatchDrift]_vars

----------------------------------------------------------------------------
(* agents/security.py, scan_diff.  A diff is the sequence of its lines as  *)
(* splitlines() gives them; a line is a sequence of tokens: the characters *)
(* "+", "-", " ", "\", the marker "@@", and pieces of text.                *)

MaxDiffLines == 4

\* raw_line.startswith(prefix)
startswith(raw_line, prefix) ==
    /\ Len(raw_line) >= Len(prefix)
    /\ SubSeq(raw_line, 1, Len(prefix)) = prefix

\* The rules whose pattern.search(line) succeeds, for a line of tokens.
line_rules(line) ==
    UNION {matching_rules(line[k]) : k \in 1..Len(line)}

scan_diff_line_counting_removed(raw_line, acc) ==
    IF startswith(raw_line, <<"+", "+", "+", " ">>)
    THEN LET parts == SubSeq(raw_line, 5, Len(raw_line)) IN
         [acc EXCEPT !.current_file = IF startswith(parts, <<"b/">>)
                                      THEN Tail(parts) ELSE parts,
                     !.line_num = 0]
    ELSE IF startswith(raw_line, <<"@@", " ">>)
    THEN [acc EXCEPT !.line_num =
              IF \E k \in 1..Len(raw_line) : raw_line[k] = "+3" THEN 3 - 1 ELSE 0]
    ELSE IF startswith(raw_line, <<"-", "-", "-">>)
    THEN acc
    ELSE IF startswith(raw_line, <<"+">>)
    THEN LET rules == line_rules(Tail(raw_line)) IN
         [acc EXCEPT
             !.line_num = @ + 1,
             !.issues = IF rules = {} THEN @
                        ELSE Append(@, [source |-> "security",
                                        file |-> acc.current_file,
                                        line |-> acc.line_num + 1,
                                        rule |-> CHOOSE r \in rules :
                                                     \A q \in rules : r <= q,
                                        message |-> "[diff] "])]
    ELSE [acc EXCEPT !.line_num = @ + 1]

\* The body of the loop of scan_diff for one line; acc holds current_file,
\* line_num and issues.  The new-file start of a hunk header is the number
\* of its first "+<digits>" (re.search(r"\+(\d+)")); the headers of the
\* model that hold one hold "+3".
scan_diff_line(raw_line, acc) ==
    IF startswith(raw_line, <<"+", "+", "+", " ">>)
    THEN LET parts == SubSeq(raw_line, 5, Len(raw_line)) IN
         [acc EXCEPT !.current_file = IF startswith(parts, <<"b/">>)
                                      THEN Tail(parts) ELSE parts,
                     !.line_num = 0]
    ELSE IF startswith(raw_line, <<"@@", " ">>)
    THEN [acc EXCEPT !.line_num =
              IF \E k \in 1..Len(raw_line) : raw_line[k] = "+3" THEN 3 - 1 ELSE 0]
    ELSE IF startswith(raw_line, <<"-", "-", "-">>)
    THEN acc
    ELSE IF startswith(raw_line, <<"+">>)
    THEN LET rules == line_rules(Tail(raw_line)) IN
         [acc EXCEPT
             !.line_num = @ + 1,
             !.issues = IF rules = {} THEN @
                        ELSE Append(@, [source |-> "security",
                                        file |-> acc.current_file,
                                        line |-> acc.line_num + 1,
                                        rule |-> CHOOSE r \in rules :
                                                     \A q \in rules : r <= q,
                                        message |-> "[diff] "])]
    ELSE IF ~startswith(raw_line, <<"-">>)
    THEN [acc EXCEPT !.line_num = @ + 1]
    ELSE acc

RECURSIVE scan_diff_from(_, _, _)
scan_diff_from(lines, n, acc) ==
    IF n > Len(lines) THEN acc.issues
    ELSE scan_diff_from(lines, n + 1, scan_diff_line(lines[n], acc))

scan_diff(diff_text) ==
    scan_diff_from(diff_text, 1,
                   [current_file |-> <<"unknown">>, line_num |-> 0,
                    issues |-> <<>>])

\* The lines the diffs are made of: two file headers, two hunk headers, an
\* old-file header, added lines (no rule, one rule, two rules, and one whose
\* content starts with "++"), a removed line and a context line that a rule
\* matches, and the no-newline marker.
DiffLines ==
    {<<"+", "+", "+", " ", "b/", "app.py">>,
     <<"+", "+", "+", " ", "lib.py">>,
     <<"@@", " ", "-1", " ", "+3", " ", "@@">>,
     <<"@@", " ", "@@">>,
     <<"-", "-", "-", " ", "a/", "app.py">>,
     <<"+", "x = 1">>,
     <<"+", "password = 'p'">>,
     <<"+", "password = 'p'; eval(x)">>,
     <<"+", "+", "+", "eval(x)">>,
     <<"-", "password = 'p'">>,
     <<" ", "password = 'p'">>,
     <<"\\", " ", "No newline at end of file">>}

InitDiff ==
    /\ \E d \in SeqsUpTo(DiffLines, MaxDiffLines) :
           state = [diff_text |-> d, issues |-> <<>>]
    /\ pc = "diff"
    /\ rf = NoRun
    /\ op = "none"
    /\ calls = <<>>

ScanDiff ==
    /\ pc = "diff"
    /\ state' = [state EXCEPT !.issues = scan_diff(state.diff_text)]
    /\ pc' = "diff_scanned"
    /\ op' = "scan_diff"
    /\ UNCHANGED <<rf, calls>>

SpecDiff == InitDiff /\ [][ScanDiff]_vars

-----------------------------------------------------------------------------
(* core/orchestrator.py: write_files on its own.  A path string is the     *)
(* sequence of its tokens ("/" is one token, a name is one or more), a     *)
(* location is the sequence of the names from the root down.  The world    *)
(* has the directories /out, /out/sub, /out2 and /etc and the symbolic     *)
(* links /outlink -> /out, /out/link -> /etc and /out/inlink -> /out/sub;  *)
(* the working directory is the root.                                      *)

MaxFiles == 2

\* str.split("/")
RECURSIVE split(_)
split(s) ==
    IF \A i \in 1..Len(s) : s[i] # "/" THEN <<s>>
    ELSE LET i == CHOOSE k \in 1..Len(s) :
                      s[k] = "/" /\ \A j \in 1..(k - 1) : s[j] # "/"
         IN  <<SubSeq(s, 1, i - 1)>> \o split(SubSeq(s, i + 1, Len(s)))

\* os.readlink of a location: the target, or the location itself when it
\* is no symbolic link
readlink(location) ==
    IF location = <<(<<"outlink">>)>> THEN <<(<<"out">>)>>
    ELSE IF location = <<(<<"out">>), <<"link">>>> THEN <<(<<"etc">>)>>
    ELSE IF location = <<(<<"out">>), <<"inlink">>>>
         THEN <<(<<"out">>), <<"sub">>>>
    ELSE location

\* posixpath._joinrealpath: the location a path leads to, names taken one
\* at a time, ".." applied to the location reached so far
RECURSIVE joinrealpath(_, _)
joinrealpath(path, rest) ==
    IF rest = <<>> THEN path
    ELSE LET name == Head(rest)
             newpath == Append(path, name)
         IN  IF name = <<>> \/ name = <<".">>
             THEN joinrealpath(path, Tail(rest))
             ELSE IF name = <<"..">>
             THEN joinrealpath(IF path = <<>> THEN path
                               ELSE SubSeq(path, 1, Len(path) - 1),
                               Tail(rest))
             ELSE joinrealpath(readlink(newpath), Tail(rest))

\* the string of a location
RECURSIVE location_str(_)
location_str(location) ==
    IF location = <<>> THEN <<>>
    ELSE <<"/">> \o Head(location) \o location_str(Tail(location))

\* os.path.abspath: ".." applied to the text, links not followed
abspath(s) ==
    LET RECURSIVE normpath(_, _)
        normpath(path, rest) ==
            IF rest = <<>> THEN path
            ELSE IF Head(rest) = <<>> \/ Head(rest) = <<".">>
            THEN normpath(path, Tail(rest))
            ELSE IF Head(rest) = <<"..">>
            THEN normpath(IF path = <<>> THEN path
                          ELSE SubSeq(path, 1, Len(path) - 1), Tail(rest))
            ELSE normpath(Append(path, Head(rest)), Tail(rest))
        location == normpath(<<>>, split(s))
    IN  IF location = <<>> THEN <<"/">> ELSE location_str(location)

\* os.path.realpath
realpath(s) ==
    LET location == joinrealpath(<<>>, split(s))
    IN  IF location = <<>> THEN <<"/">> ELSE location_str(location)

\* One round of the loop of write_files on the file system fs (the
\* directories and the regular files, by location): the exception raised,
\* if any, and the file system it leaves.
write_file(output_dir, f_path, fs) ==
    LET full_path ==
            IF f_path # <<>> /\ f_path[1] = "/" THEN f_path
            ELSE IF Last(output_dir) = "/" THEN output_dir \o f_path
            ELSE output_dir \o <<"/">> \o f_path
        resolved == realpath(full_path)
        names == split(resolved)
        \* what the kernel makes of the paths it is handed
        file == joinrealpath(<<>>, names)
        dir == joinrealpath(<<>>, SubSeq(names, 1, Len(names) - 1))
        above == {SubSeq(dir, 1, k) : k \in 1..Len(dir)}
    IN  IF ~startswith(resolved, realpath(output_dir) \o <<"/">>)
        THEN [exc |-> "ValueError", fs |-> fs]
        ELSE IF dir \in fs.files
        THEN [exc |-> "FileExistsError", fs |-> fs]
        ELSE IF above \cap fs.files # {}
        THEN [exc |-> "NotADirectoryError", fs |-> fs]
        ELSE LET made == [fs EXCEPT !.dirs = @ \cup above]
             IN  IF file \in made.dirs
                 THEN [exc |-> "IsADirectoryError", fs |-> made]
                 ELSE [exc |-> "None",
                       fs |-> [made EXCEPT !.files = @ \cup {file}]]

write_files(s, fs) ==
    LET RECURSIVE loop(_, _, _)
        loop(k, written, fs_k) ==
            IF k > Len(s.current_files)
            THEN [exc |-> "None", v |-> written, fs |-> fs_k]
            ELSE LET f == s.current_files[k]
                     r == write_file(s.output_dir, f.path, fs_k)
                 IN  IF r.exc # "None"
                     THEN [exc |-> r.exc, v |-> None, fs |-> r.fs]
                     ELSE loop(k + 1, Append(written, f.path), r.fs)
    IN  IF s.output_dir = <<>> THEN [exc |-> "None", v |-> <<>>, fs |-> fs]
        ELSE loop(1, <<>>, fs)

InitWrite ==
    /\ LET FilePaths ==
           { <<"x">>, <<"sub", "/", "x">>, <<"..", "/", "x">>,
             <<"..", "/", "out", "2", "/", "x">>, <<"/", "etc", "/", "x">>,
             <<"/", "out", "/", "x">>, <<"link", "/", "x">>,
             <<"inlink", "/", "x">>, <<"sub", "/", "..", "/", "x">>,
             <<"link", "/", "..", "/", "out", "/", "x">>, <<>>, <<"sub">>,
             <<"inlink", "/", "..", "/", "x">>, <<"x", "/", "y">>, <<".">> }
       IN  \E output_dir \in {<<>>, <<"/", "out">>, <<"/", "outlink">>,
                              <<"/", "out", "/">>} :
           \E n \in 0..MaxFiles : \E paths \in [1..n -> FilePaths] :
               state = [output_dir |-> output_dir,
                        current_files |->
                            [k \in 1..n |-> [path |-> paths[k]]],
                        fs |-> [dirs |-> {<<(<<"out">>)>>,
                                          <<(<<"out">>), <<"sub">>>>,
                                          <<(<<"out", "2">>)>>,
                                          <<(<<"etc">>)>>},
                                files |-> {}],
                        result |-> None]
    /\ pc = "write"
    /\ rf = None
    /\ op = "none"
    /\ calls = None

WriteFiles ==
    /\ pc = "write"
    /\ LET r == write_files(state, state.fs)
       IN  state' = [state EXCEPT !.fs = r.fs,
                                  !.result = [exc |-> r.exc, v |-> r.v]]
    /\ pc' = "written"
    /\ op' = "write_files"
    /\ UNCHANGED <<rf, calls>>

SpecWrite == InitWrite /\ [][WriteFiles]_vars

-----------------------------------------------------------------------------
(* core/orchestrator.py, run_iteration, with the FileEntry objects kept    *)
(* apart from the lists that hold them.  heap[r] is the content of the     *)
(* FileEntry object r; current_files and the files of an Iteration are     *)
(* lists of references, [path, ref].  Contents are the atom sequences of   *)
(* the auto-fix rules, each a single line.  The reviewer finds nothing or  *)
(* one error, the tester finds nothing, pip-audit and semgrep are not      *)
(* installed.                                                              *)

\* GeneratorAgent.run: FileEntry(...) makes a new object for every parsed
\* file; the files kept in patch mode are the objects already held.
generator_run_by_reference(s, parsed) ==
    LET is_patching == s.current_files # <<>> /\ s.patch_instructions # <<>>
        patched_paths == Paths(parsed)
        kept == SelectSeq(s.current_files, LAMBDA f : f.path \notin patched_paths)
        new == [k \in 1..Len(parsed) |->
                    [path |-> parsed[k].path, ref |-> Len(s.heap) + k]]
    IN  [s EXCEPT !.status = "generating",
                  !.heap = @ \o [k \in 1..Len(parsed) |-> parsed[k].content],
                  !.current_files = IF is_patching THEN kept \o new ELSE new,
                  !.patch_instructions = <<>>]

\* SecurityAgent.run: f.content = content assigns to the object in
\* current_files.  The drift scan reads the files of the last Iteration
\* after the auto-fix pass; a file of one line that differs from the one
\* before has that line as its only added line.
security_run_in_place(s) ==
    LET RECURSIVE fix(_, _, _)
        fix(k, heap, issues) ==
            IF k > Len(s.current_files) THEN [heap |-> heap, issues |-> issues]
            ELSE LET f == s.current_files[k]
                     r == fix_and_scan(FileEntry(f.path, heap[f.ref]))
                 IN  IF f.path \in PyPaths
                     THEN fix(k + 1, [heap EXCEPT ![f.ref] = r.file.content],
                              issues \o r.issues)
                     ELSE fix(k + 1, heap, issues)
        fixed == fix(1, s.heap, <<>>)
        prev == IF s.iterations = <<>> THEN <<>> ELSE Last(s.iterations).files
        old_content(path) ==
            IF path \in Paths(prev)
            THEN fixed.heap[prev[CHOOSE j \in 1..Len(prev) :
                                     /\ prev[j].path = path
                                     /\ \A i \in (j + 1)..Len(prev) :
                                            prev[i].path # path].ref]
            ELSE <<>>
        RECURSIVE drift(_)
        drift(k) ==
            IF k > Len(s.current_files) THEN <<>>
            ELSE LET f == s.current_files[k]
                     content == fixed.heap[f.ref]
                     found == scan_line(f.path, 1, content, 1)
                 IN  (IF old_content(f.path) # content /\ content # <<>>
                         /\ found # <<>>
                      THEN <<[found[1] EXCEPT
                                 !.rule = <<"[patch-drift]", @>>]>>
                      ELSE <<>>) \o drift(k + 1)
    IN  [s EXCEPT !.status = "security",
                  !.heap = fixed.heap,
                  !.security_issues =
                      fixed.issues
                      \o (IF s.iterations = <<>> THEN <<>> ELSE drift(1))]

\* run_iteration once the security scan has returned s:
\* files=list(state.current_files) copies the list of references, not the
\* objects.
append_iteration(s, number) ==
    LET all_issues == s.review_issues \o s.test_issues \o s.security_issues
        security_passed ==
            \A k \in 1..Len(s.security_issues) :
                s.security_issues[k].severity # "error"
        iteration == Iteration(number, s.current_files, all_issues,
                               s.lint_passed, s.tests_passed, security_passed)
        s5 == [s EXCEPT !.iterations = Append(@, iteration)]
    IN  IF gate_status(iteration) = "done"
        THEN [s5 EXCEPT !.status = "done"]
        ELSE patch_composer_run([s5 EXCEPT !.status = "awaiting_approval"],
                                all_issues)

run_iteration_by_reference(s, parsed, review) ==
    IF AtCeiling(s) THEN refuse(s)
    ELSE append_iteration(
             security_run_in_place(
                 tester_run(
                     reviewer_run(generator_run_by_reference(s, parsed),
                                  review),
                     <<>>, TRUE)),
             iteration_num(s))

InitObjects ==
    /\ state = create_state(None) @@ [heap |-> <<>>]
    /\ pc = "objects"
    /\ rf = NoRun
    /\ op = "create_state"
    /\ calls = <<>>

RunIterationByReference(parsed, review) ==
    /\ pc = "objects"
    /\ ErrorsRoom(state)
    /\ state' = run_iteration_by_reference(state, parsed, review)
    /\ op' = "run_iteration"
    /\ UNCHANGED <<pc, rf, calls>>

\* A first generation of two files, a patch of requirements.txt alone, a
\* patch of app.py alone, a response with no file in it.
SpecObjects ==
    InitObjects
    /\ [][\E parsed \in
               { <<FileEntry("app.py", <<"'", "0.0.0.0", "'", "0.0.0.0", "'">>),
                   FileEntry("requirements.txt", <<"flask">>)>>,
                 <<FileEntry("requirements.txt", <<"flask", "=", "=", "3">>)>>,
                 <<FileEntry("app.py", <<"debug", "=", "True">>)>>,
                 <<>> } :
           \E review \in {<<>>, <<Issue("reviewer", "error",
                                        "requirements.txt")>>} :
               RunIterationByReference(parsed, review)]_vars

-----------------------------------------------------------------------------
(* core/orchestrator.py, lines 121-127, with agents/patch_composer.py: the *)
(* gate and the patch composer applied to an Iteration that was just       *)
(* appended, for every list of up to MaxPatchIssues issues over two files  *)
(* and the three severities.                                               *)

MaxPatchIssues == 3

\* The state at line 121: the generator has cleared patch_instructions.
InitPatch ==
    /\ \E issues \in SeqsUpTo({Issue(source, severity, file) :
                                  source \in {"reviewer", "security"},
                                  severity \in Severities,
                                  file \in {"app.py", "requirements.txt"}},
                              MaxPatchIssues),
          lint_passed \in BOOLEAN :
           state = [PipelineState(hard_max_iterations) EXCEPT
                        !.status = "security",
                        !.iterations =
                            <<Iteration(1, App("ok"), issues, lint_passed,
                                        TRUE, TRUE)>>,
                        !.current_files = App("ok")]
    /\ pc = "patch"
    /\ rf = NoRun
    /\ op = "make_iteration"
    /\ calls = <<>>

ComposePatch ==
    /\ pc = "patch"
    /\ LET iteration == Last(state.iterations)
       IN  state' = IF gate_status(iteration) = "done"
                    THEN [state EXCEPT !.status = "done"]
                    ELSE patch_composer_run(
                             [state EXCEPT !.status = "awaiting_approval"],
                             iteration.issues)
    /\ pc' = "patched"
    /\ op' = "patch_composer"
    /\ UNCHANGED <<rf, calls>>

SpecPatch == InitPatch /\ [][ComposePatch]_vars

----------------------------------------------------------------------------
(* agents/security.py, SecurityAgent.run for one file whose texts no       *)
(* auto-fix rule rewrites: the line scan of lines 40-87, which picks the   *)
(* rule list by the file's extension, followed by _scan_patch_drift.  The  *)
(* tool runners find nothing and no text holds a form tag, so _check_csrf  *)
(* returns None.  Every line ends with "\n".                               *)

MaxKindLines == 2

\* config/rules.py: the rule lists as the positions of their rules in
\* _ALL_PATTERNS = SECURITY_PATTERNS + HTML_SECURITY_PATTERNS.
SECURITY_PATTERNS == 1..27

HTML_SECURITY_PATTERNS == 28..33

\* The rule list SecurityAgent.run scans the lines of a file with: the
\* path ends with ".py", or its extension is in _TEMPLATE_EXTENSIONS, or
\* the file is not scanned.
patterns_for(path) ==
    CASE path = "app.py" -> SECURITY_PATTERNS
      [] path = "templates/a.html" -> HTML_SECURITY_PATTERNS
      [] path = "notes.txt" -> {}

\* The line scan: one Issue per line and matching rule of the list, in the
\* order of the lines and then of the rules.
RECURSIVE scan_lines_of_kind(_, _, _, _)
scan_lines_of_kind(path, lines, patterns, n) ==
    LET RECURSIVE by_rule(_)
        by_rule(r) ==
            IF r > 33 THEN <<>>
            ELSE (IF r \in patterns /\ r \in matching_rules(lines[n].text)
                  THEN <<[source |-> "security", file |-> path, line |-> n,
                          rule |-> r, message |-> ""]>>
                  ELSE <<>>) \o by_rule(r + 1)
    IN  IF n > Len(lines) THEN <<>>
        ELSE by_rule(1) \o scan_lines_of_kind(path, lines, patterns, n + 1)

\* One current file of either kind or of neither, with no Iteration yet or
\* with an Iteration that holds an earlier content of the file.
InitKinds ==
    /\ LET texts == {"x = 1", "password = 'p'", "eval(x)", "{{ v | safe }}",
                     "{{ v | safe }} eval(x)"}
           Lines == {[n \in 1..Len(t) |-> [text |-> t[n], end |-> "\n"]] :
                        t \in SeqsUpTo(texts, MaxKindLines)}
       IN  \E path \in {"app.py", "templates/a.html", "notes.txt"},
              new \in Lines, old \in Lines, first \in BOOLEAN :
               /\ first => old = <<>>
               /\ state = [iterations |->
                              IF first THEN <<>>
                              ELSE <<[files |-> <<FileEntry(path, old)>>]>>,
                           current_files |-> <<FileEntry(path, new)>>,
                           added |-> {},
                           security_issues |-> <<>>]
    /\ pc = "kinds"
    /\ rf = NoRun
    /\ op = "none"
    /\ calls = <<>>

SecurityRunKinds ==
    /\ pc = "kinds"
    /\ LET f == state.current_files[1]
           r == scan_patch_drift(state.iterations, f)
       IN  state' = [state EXCEPT
                        !.added = r.added,
                        !.security_issues =
                            scan_lines_of_kind(f.path, f.content, patterns_for(f.path), 1)
                            \o r.issues]
    /\ pc' = "kinds_scanned"
    /\ op' = "security"
    /\ UNCHANGED <<rf, calls>>

SpecKinds == InitKinds /\ [][SecurityRunKinds]_vars

----------------------------------------------------------------------------
(* The writers of current_files on their own: GeneratorAgent.run with the  *)
(* response parsed by utils/llm.py parse_files, PatchComposer.run,         *)
(* Orchestrator.generate_readme and IDORTemplateGenerator.run.  A response *)
(* of the text-authoring service is the sequence of its fenced blocks,     *)
(* each with the file name parse_files finds for it (None if it finds      *)
(* none) and its content.                                                  *)

MaxBlocks == 2

\* parse_files: one (filename, content) pair per block that has a file
\* name, in the order of the blocks.
parse_files(response) ==
    LET named == SelectSeq(response, LAMBDA b : b.filename # None)
    IN  [k \in 1..Len(named) |-> FileEntry(named[k].filename[1], named[k].content)]

\* IDORTemplateGenerator.run; `routes` tells whether the stack is an HTTP
\* stack and _find_routes finds a route.
idor_template_run(s, routes) ==
    IF "tests/test_idor.py" \in Paths(s.current_files) \/ ~routes THEN s
    ELSE [s EXCEPT !.current_files =
                       Append(@, FileEntry("tests/test_idor.py", "ok"))]

InitFiles ==
    /\ state = create_state(None)
    /\ pc = "files"
    /\ rf = NoRun
    /\ op = "create_state"
    /\ calls = <<>>

GeneratorRunFiles(response) ==
    /\ pc = "files"
    /\ state' = generator_run(state, parse_files(response))
    /\ op' = "generator"
    /\ UNCHANGED <<pc, rf, calls>>

PatchComposerRunFiles(all_issues) ==
    /\ pc = "files"
    /\ state' = patch_composer_run(state, all_issues)
    /\ op' = "patch_composer"
    /\ UNCHANGED <<pc, rf, calls>>

GenerateReadmeFiles ==
    /\ pc = "files"
    /\ state' = generate_readme(state)
    /\ op' = "generate_readme"
    /\ UNCHANGED <<pc, rf, calls>>

IdorTemplateRunFiles(routes) ==
    /\ pc = "files"
    /\ state' = idor_template_run(state, routes)
    /\ op' = "idor_template"
    /\ UNCHANGED <<pc, rf, calls>>

SpecFiles ==
    InitFiles /\
    [][\/ \E response \in SeqsUpTo(
                  [filename : {None, Some("app.py"), Some("README.md")},
                   content : {"a", "b"}], MaxBlocks) :
              GeneratorRunFiles(response)
       \/ \E all_issues \in {<<>>, <<Issue("reviewer", "error", "app.py")>>} :
              PatchComposerRunFiles(all_issues)
       \/ GenerateReadmeFiles
       \/ \E routes \in BOOLEAN : IdorTemplateRunFiles(routes)]_vars

----------------------------------------------------------------------------
(* server.py, api_iterate, for requests that name the same job and are     *)
(* served by different threads.  The handler holds no lock between its     *)
(* checks and the end of run_iteration, so its steps interleave: the       *)
(* lookup and the checks of lines 174-185, the guard and iteration_num of   *)
(* run_iteration, and the rest of run_iteration with the response, which   *)
(* starts with the generator's call to the text-authoring service.         *)
(* `state` holds the job's PipelineState and, for every request thread,    *)
(* where it stands and the iteration_num it has taken.                     *)

MaxRequests == 2

Requests == 1..MaxRequests

\* The job as /api/generate stores it: created without max_iterations and
\* run through one iteration.
InitConcurrent ==
    /\ \E o \in {Outcome(App("ok"), <<>>, <<>>, TRUE, <<>>),
                 Outcome(App("ok"), <<Issue("reviewer", "error", "app.py")>>,
                         <<>>, TRUE, <<>>)} :
           LET r == run_iteration(plan(create_state(None)), o) IN
           state = [job |-> IF r.state.status = "done"
                            THEN generate_readme(r.state) ELSE r.state,
                    requests |-> [t \in Requests |->
                                     [at |-> "idle", iteration_num |-> 0]]]
    /\ pc = "serving"
    /\ rf = NoRun
    /\ op = "api_generate"
    /\ calls = <<>>

\* Lines 174-185: the job is found; a finished job or one at its limit is
\* answered with 400.
IterateCheck(t) ==
    /\ pc = "serving"
    /\ state.requests[t].at = "idle"
    /\ LET effective_max == Min(state.job.max_iterations, hard_max_iterations)
       IN  IF state.job.status = "done"
              \/ Len(state.job.iterations) >= effective_max
           THEN /\ op' = "api_iterate_400"
                /\ UNCHANGED state
           ELSE /\ op' = "api_iterate"
                /\ state' = [state EXCEPT !.requests[t].at = "checked"]
    /\ UNCHANGED <<pc, rf, calls>>

\* run_iteration, lines 76-84: the guard, which ends the call and with it
\* the request, and iteration_num.
IterateEnter(t) ==
    /\ pc = "serving"
    /\ state.requests[t].at = "checked"
    /\ IF AtCeiling(state.job)
       THEN state' = [state EXCEPT
                         !.job = generate_readme(refuse(@)),
                         !.requests[t].at = "idle"]
       ELSE state' = [state EXCEPT
                         !.requests[t] = [at |-> "stages",
                                          iteration_num |-> iteration_num(state.job)]]
    /\ op' = "run_iteration"
    /\ UNCHANGED <<pc, rf, calls>>

\* run_iteration, lines 86-128, and lines 189-191 of the handler.
IterateFinish(t, o) ==
    /\ pc = "serving"
    /\ state.requests[t].at = "stages"
    /\ LET r == run_stages(state.job, o, state.requests[t].iteration_num) IN
       /\ state' = [state EXCEPT
                       !.job = IF r.state.status = "done"
                               THEN generate_readme(r.state) ELSE r.state,
                       !.requests[t].at = "idle"]
       /\ calls' = r.calls
    /\ op' = "api_iterate_200"
    /\ UNCHANGED <<pc, rf>>

SpecConcurrent ==
    InitConcurrent /\
    [][\E t \in Requests :
          \/ IterateCheck(t)
          \/ IterateEnter(t)
          \/ \E o \in {Outcome(App("ok"), <<>>, <<>>, TRUE, <<>>),
                       Outcome(App("ok"), <<Issue("reviewer", "error", "app.py")>>,
                               <<>>, TRUE, <<>>)} :
                 IterateFinish(t, o)]_vars

----------------------------------------------------------------------------
(* server.py: the job store.  _jobs is the sequence of its entries in the  *)
(* order they were inserted (a dict keeps that order); an entry has its    *)
(* job_id, the time it was stored and the PipelineState.  `state` holds    *)
(* the store, the clock time.time() reads, the next job_id (ids are taken  *)
(* to be unique) and the last response.  _store_job and the lookup run     *)
(* under _jobs_lock, so each is one step.                                  *)

_MAX_JOBS == 50

_JOB_TTL == 3600

\* The clock advances by ClockStep seconds at a time, MaxTicks times; two
\* steps are more than _JOB_TTL.
ClockStep == 1801

MaxTicks == 2

\* The number of _store_job calls of a behaviour.
MaxStores == 52

MaxLookupStores == 2

\* _cleanup_jobs: the expired entries are deleted, then, if more than
\* _MAX_JOBS are left, the first entries of the list sorted by `created`
\* (sorted is stable).
cleanup_jobs(jobs, now) ==
    LET live == SelectSeq(jobs, LAMBDA job : ~(now - job.created > _JOB_TTL))
        over == Len(live) - _MAX_JOBS
        before(k) == {m \in 1..Len(live) :
                         \/ live[m].created < live[k].created
                         \/ live[m].created = live[k].created /\ m < k}
        kept == {k \in 1..Len(live) : Cardinality(before(k)) >= over}
        RECURSIVE keep(_)
        keep(k) == IF k > Len(live) THEN <<>>
                   ELSE (IF k \in kept THEN <<live[k]>> ELSE <<>>) \o keep(k + 1)
    IN  IF Len(live) > _MAX_JOBS THEN keep(1) ELSE live

\* _store_job, lines 44-46.
store_job(jobs, job_id, s, now) ==
    Append(cleanup_jobs(jobs, now),
           [job_id |-> job_id, created |-> now, state |-> s])

\* The positions of the entries with the job_id: none or one.
find_job(jobs, job_id) == {k \in 1..Len(jobs) : jobs[k].job_id = job_id}

\* _get_job_state: the entry that is served (none for None) and the store
\* it leaves; an expired entry is popped.
get_job_state(jobs, job_id, now) ==
    LET found == find_job(jobs, job_id) IN
    IF found = {} THEN [served |-> {}, jobs |-> jobs]
    ELSE LET k == CHOOSE k \in found : TRUE IN
         IF now - jobs[k].created > _JOB_TTL
         THEN [served |-> {},
               jobs |-> SelectSeq(jobs, LAMBDA job : job.job_id # job_id)]
         ELSE [served |-> {k}, jobs |-> jobs]

NoResponse == [endpoint |-> "none", job_id |-> 0, code |-> 0]

Response(endpoint, job_id, code) ==
    [endpoint |-> endpoint, job_id |-> job_id, code |-> code]

InitStore ==
    /\ state = [jobs |-> <<>>, now |-> 0, next_id |-> 1, response |-> NoResponse]
    /\ pc = "jobs"
    /\ rf = NoRun
    /\ op = "none"
    /\ calls = <<>>

\* /api/generate, lines 146-160: create_state, plan, one run_iteration, the
\* README for a finished job, and _store_job.
ApiGenerate(o, max_stores) ==
    /\ pc = "jobs"
    /\ state.next_id <= max_stores
    /\ LET r == run_iteration(plan(create_state(None)), o)
           s == IF r.state.status = "done" THEN generate_readme(r.state)
                ELSE r.state
       IN  /\ state' = [state EXCEPT
                           !.jobs = store_job(@, state.next_id, s, state.now),
                           !.next_id = @ + 1,
                           !.response = Response("generate", state.next_id, 200)]
           /\ calls' = r.calls
    /\ op' = "api_generate"
    /\ UNCHANGED <<pc, rf>>

\* Time passes.
Tick ==
    /\ pc = "jobs"
    /\ state.now < MaxTicks * ClockStep
    /\ state' = [state EXCEPT !.now = @ + ClockStep]
    /\ op' = "tick"
    /\ UNCHANGED <<pc, rf, calls>>

SpecStore ==
    InitStore /\
    [][\/ \E o \in {Outcome(App("ok"), <<>>, <<>>, TRUE, <<>>)} :
              ApiGenerate(o, MaxStores)
       \/ Tick]_vars

----------------------------------------------------------------------------
(* server.py: the endpoints that look a job up by its job_id.  job_id 0 is *)
(* an id that was never given out.                                         *)

\* /api/status/<job_id>.
ApiStatus(job_id) ==
    /\ pc = "jobs"
    /\ LET r == get_job_state(state.jobs, job_id, state.now) IN
       state' = [state EXCEPT
                    !.jobs = r.jobs,
                    !.response = Response("status", job_id,
                                          IF r.served = {} THEN 404 ELSE 200)]
    /\ op' = "api_status"
    /\ calls' = <<>>
    /\ UNCHANGED <<pc, rf>>

\* /api/approve.
ApiApprove(job_id) ==
    /\ pc = "jobs"
    /\ LET r == get_job_state(state.jobs, job_id, state.now) IN
       IF r.served = {}
       THEN state' = [state EXCEPT !.jobs = r.jobs,
                                   !.response = Response("approve", job_id, 404)]
       ELSE LET k == CHOOSE k \in r.served : TRUE IN
            state' = [state EXCEPT
                         !.jobs[k].state =
                             generate_readme([@ EXCEPT !.status = "done"]),
                         !.response = Response("approve", job_id, 200)]
    /\ op' = "api_approve"
    /\ calls' = <<>>
    /\ UNCHANGED <<pc, rf>>

\* /api/iterate for the job of a job_id.
ApiIterateJob(job_id, o) ==
    /\ pc = "jobs"
    /\ LET r == get_job_state(state.jobs, job_id, state.now) IN
       IF r.served = {}
       THEN /\ state' = [state EXCEPT !.jobs = r.jobs,
                                      !.response = Response("iterate", job_id, 404)]
            /\ calls' = <<>>
       ELSE LET k == CHOOSE k \in r.served : TRUE
                s == state.jobs[k].state
                effective_max == Min(s.max_iterations, hard_max_iterations)
            IN  IF s.status = "done" \/ Len(s.iterations) >= effective_max
                THEN /\ state' = [state EXCEPT
                                     !.response = Response("iterate", job_id, 400)]
                     /\ calls' = <<>>
                ELSE LET it == run_iteration(s, o) IN
                     /\ state' = [state EXCEPT
                                     !.jobs[k].state =
                                         IF it.state.status = "done"
                                         THEN generate_readme(it.state)
                                         ELSE it.state,
                                     !.response = Response("iterate", job_id, 200)]
                     /\ calls' = it.calls
    /\ op' = "api_iterate"
    /\ UNCHANGED <<pc, rf>>

\* /api/deploy: the entry is read from _jobs directly; a job that is done
\* is handed to DeployerAgent.run.
ApiDeploy(job_id) ==
    /\ pc = "jobs"
    /\ LET found == find_job(state.jobs, job_id) IN
       IF found = {}
       THEN /\ state' = [state EXCEPT !.response = Response("deploy", job_id, 404)]
            /\ calls' = <<>>
       ELSE LET s == state.jobs[CHOOSE k \in found : TRUE].state IN
            IF s.status # "done"
            THEN /\ state' = [state EXCEPT
                                 !.response = Response("deploy", job_id, 400)]
                 /\ calls' = <<>>
            ELSE /\ state' = [state EXCEPT
                                 !.response = Response("deploy", job_id, 200)]
                 /\ calls' = <<[agent |-> "deployer", status |-> s.status]>>
    /\ op' = "api_deploy"
    /\ UNCHANGED <<pc, rf>>

SpecLookup ==
    InitStore /\
    [][\/ \E o \in {Outcome(App("ok"), <<>>, <<>>, TRUE, <<>>),
                    Outcome(App("ok"), <<Issue("reviewer", "error", "app.py")>>,
                            <<>>, TRUE, <<>>)} :
              \/ ApiGenerate(o, MaxLookupStores)
              \/ \E job_id \in 0..MaxLookupStores : ApiIterateJob(job_id, o)
       \/ Tick
       \/ \E job_id \in 0..MaxLookupStores :
              \/ ApiStatus(job_id)
              \/ ApiApprove(job_id)
              \/ ApiDeploy(job_id)]_vars

----------------------------------------------------------------------------
(* Properties                                                              *)

NoErrorIssue(it) == \A k \in 1..Len(it.issues) : it.issues[k].severity # "error"

GatePasses(it) == NoErrorIssue(it) /\ it.lint_passed /\ it.security_passed

\* C1: whatever cap was requested, the number of Iterations of the JobState
\* never exceeds the hard ceiling.
C1_IterationsWithinCeiling == Len(state.iterations) <= hard_max_iterations

\* A run_iteration call was refused at the ceiling on a state created with
\* a requested cap of 999.
C1_Witness ==
    /\ Len(state.iterations) = hard_max_iterations
    /\ state.max_iterations = 999
    /\ Len(state.errors) = 1

\* C2: a run_iteration call on a state at the ceiling appends exactly one
\* message to errors, sets status to "done", invokes no collaborator and
\* leaves iterations and current_files as they were.
C2_CeilingCallRefused ==
    [][(op' = "run_iteration" /\ Len(state.iterations) >= hard_max_iterations) =>
          /\ Len(state'.errors) = Len(state.errors) + 1
          /\ SubSeq(state'.errors, 1, Len(state.errors)) = state.errors
          /\ state'.status = "done"
          /\ calls' = <<>>
          /\ state'.iterations = state.iterations
          /\ state'.current_files = state.current_files]_vars

\* The state right after a refused run_iteration call whose last Iteration
\* had failed the gate.
C2_Witness ==
    /\ op = "run_iteration"
    /\ calls = <<>>
    /\ Len(state.iterations) = hard_max_iterations
    /\ ~GatePasses(Last(state.iterations))
    /\ state.status = "done"
    /\ Len(state.errors) = 1

\* C3: the gate passes exactly when no issue is an error and lint_passed and
\* security_passed hold; flipping tests_passed, or dropping every warning
\* and info issue, never changes the result.
C3_GateDefinition ==
    \A k \in 1..Len(state.iterations) :
        LET it == state.iterations[k]
            flipped == [it EXCEPT !.tests_passed = ~@]
            errors_only ==
                [it EXCEPT !.issues = SelectSeq(@, LAMBDA i : i.severity = "error")]
        IN  /\ quality_gates_pass(it) <=> GatePasses(it)
            /\ quality_gates_pass(flipped) <=> quality_gates_pass(it)
            /\ quality_gates_pass(errors_only) <=> quality_gates_pass(it)

\* The gate was applied to an Iteration with failed tests and with warning
\* and info issues, and it passed.
C3_Witness ==
    /\ op = "quality_gates_pass"
    /\ state.status = "done"
    /\ LET it == Last(state.iterations)
       IN  /\ ~it.tests_passed
           /\ Len(it.issues) = MaxIssues
           /\ \E k \in 1..Len(it.issues) : it.issues[k].severity = "warning"

C5_NoCallbackOneIteration ==
    (pc = "returned" /\ ~rf.on_iteration) =>
        /\ rf.runs = 1
        /\ Len(state.iterations) = 1
        /\ state.status = "done"

\* C6: on_iteration is called only after an iteration that ended in
\* "awaiting_approval" and with that latest Iteration; once it has returned
\* false, run_iteration is not called again in the run and the run returns
\* "done".
C6_CallbackGatesTheLoop ==
    [][/\ pc' = "callback" =>
              /\ state'.status = "awaiting_approval"
              /\ rf'.arg = Last(state'.iterations)
              /\ rf'.asked = rf'.runs
       /\ (rf.declined /\ ~Idle) =>
              /\ rf'.declined
              /\ rf'.runs = rf.runs
              /\ state'.iterations = state.iterations
              /\ pc' # "callback"
       /\ (rf'.declined /\ pc' = "returned") => state'.status = "done"]_vars

\* A run_full call has returned after the callback approved once and then
\* declined.
C6_Witness ==
    /\ pc = "returned"
    /\ rf.declined
    /\ rf.asked = 2
    /\ rf.runs = 2

\* C7: a started run_full call returns; it runs at most hard-ceiling
\* iterations and returns with status "done" or "failed".
C7_RunFullTerminates ==
    /\ [](rf.runs <= hard_max_iterations)
    /\ [](pc = "returned" => state.status \in {"done", "failed"})
    /\ [](~Idle => <>(pc = "returned"))

\* A run_full call has returned after the callback approved every time and
\* the gate never passed.
C7_Witness ==
    /\ pc = "returned"
    /\ rf.on_iteration
    /\ ~rf.declined
    /\ rf.runs = hard_max_iterations
    /\ rf.asked = hard_max_iterations
    /\ \A k \in 1..Len(state.iterations) : ~GatePasses(state.iterations[k])

\* C8 as stated: once status is "done", no run_iteration call takes it to a
\* non-terminal value or appends an Iteration.
C8_DoneIsTerminalForRunIteration ==
    [][(state.status = "done" /\ op' = "run_iteration") =>
          /\ state'.status \in {"done", "failed"}
          /\ state'.iterations = state.iterations]_vars

\* C8 as amended: /api/iterate refuses a job whose status is "done" and
\* leaves it as it is, and run_full makes no run_iteration call once status
\* is "done".
C8_DoneIsTerminalForCallers ==
    [][/\ (state.status = "done" /\ op' \in {"api_iterate", "api_iterate_400"}) =>
              /\ op' = "api_iterate_400"
              /\ state' = state
       /\ (state.status = "done" /\ ~Idle) =>
              /\ state'.status = "done"
              /\ state'.iterations = state.iterations
              /\ rf'.runs = rf.runs]_vars

\* /api/iterate has refused a job that is "done" and below every limit.
C8_Witness ==
    /\ op = "api_iterate_400"
    /\ state.status = "done"
    /\ Len(state.iterations) = 1
    /\ state.max_iterations = hard_max_iterations

\* C9: the cap stored by create_state never exceeds the hard ceiling.
C9_CapClamped == state.max_iterations <= hard_max_iterations

\* C10: a run_iteration call on a state that holds max_iterations Iterations
\* sets status "done", appends no Iteration and calls no collaborator.
C10_RefusedAtOwnCap ==
    [][(op' = "run_iteration" /\ Len(state.iterations) = state.max_iterations) =>
          /\ state'.status = "done"
          /\ state'.iterations = state.iterations
          /\ calls' = <<>>]_vars


\* C11: run_in_sandbox raises ValueError and spawns no process whenever the
\* command is empty, its program name is not in the allow-list or the
\* working directory does not exist; a process is spawned only after all
\* three checks have passed.
C11_SandboxChecksBeforeSpawn ==
    op = "run_in_sandbox" =>
        LET empty == state.command.argv = <<>>
            listed == ~empty /\ state.command.argv[1] \in allowed_commands
            cwd_ok == state.cwd \in {"dir", "link_to_dir"}
        IN  /\ (empty \/ ~listed \/ ~cwd_ok) =>
                    /\ state.ret.raised = "ValueError"
                    /\ ~state.ret.spawned
                    /\ state.ret.result = None
            /\ state.ret.spawned => (~empty /\ listed /\ cwd_ok)

\* A program outside the allow-list was refused in an existing directory,
\* where only the allow-list check stands between the call and the spawn.
C11_Witness ==
    /\ op = "run_in_sandbox"
    /\ state.command.argv = <<"rm", "-rf", "/">>
    /\ state.command.is_list
    /\ state.cwd = "dir"
    /\ state.ret.raised = "ValueError"
    /\ ~state.ret.spawned


\* C12: whatever the two optional tools do (binary missing, timeout, any
\* stdout), the tool runners raise no exception, and a runner whose tool is
\* missing, timed out or printed a text that is not JSON adds no Issue.
C12_ToolRunnersNeverRaise ==
    op = "optional_tool_runners" =>
        /\ state.ret.exc = ""
        /\ (/\ state.pip_audit.stdout \in {0, 1}
            /\ state.semgrep.stdout \in {0, 1}) => state.ret.v = <<>>


\* C13: after the fix pass and scan of a .py file, no Issue of a rule that
\* defines an auto-fix remains for that file.
C13_NoIssueLeftByFixRule ==
    (op = "security_run" /\ state.runs = 1) =>
        \A k \in 1..Len(state.security_issues) :
            state.security_issues[k].rule \notin {"debug", "bind", "httponly"}

\* C14: a second SecurityAgent.run on the same state leaves the content and
\* the Issue list as the first run left them.
C14_ScanIdempotent ==
    (op = "security_run" /\ state.runs = 2) =>
        /\ state.current_files[1] = state.first.file
        /\ state.security_issues = state.first.issues


\* The form tags of a template that submit with POST: "<form" followed by
\* attributes, the first method attribute of which has the value post.
RECURSIVE FormMethod(_, _)
FormMethod(c, i) ==
    IF i > Len(c) THEN "get"
    ELSE IF c[i] \in {" method=\"post\"", " method=post"} THEN "post"
    ELSE IF c[i] = " method=\"get\"" THEN "get"
    ELSE IF c[i] = " action=\"/x\"" THEN FormMethod(c, i + 1)
    ELSE "get"

HasPostMethodForm(c) ==
    \E i \in 1..Len(c) : c[i] = "<form" /\ FormMethod(c, i + 1) = "post"

\* C15: for a template file on a cookie-session stack, a POST-method form
\* with no token marker in the file yields exactly one Issue, of severity
\* "error" and line None; a marker, no POST form or another stack yields no
\* CSRF Issue.
C15_CsrfRule ==
    (pc = "template_scanned" /\ Last(state.current_files[1].path) \in
                                    {"html", "jinja2", "j2"}) =>
        LET f == state.current_files[1]
            flagged == /\ state.stack = "flask"
                       /\ HasPostMethodForm(f.content)
                       /\ ~\E i \in 1..Len(f.content) :
                              f.content[i] = "{{ csrf_token() }}"
        IN  IF flagged
            THEN /\ Len(state.security_issues) = 1
                 /\ state.security_issues[1].severity = "error"
                 /\ state.security_issues[1].line = None
            ELSE state.security_issues = <<>>


\* C16: the patch-drift scan yields Issues only for lines that are inserted
\* or replaced relative to the same path in the last Iteration, one per such
\* line that a rule matches, from the first matching rule and with the
\* "[patch-drift] " prefix; a line left out is a line of the old content,
\* lines appended to the old content are the only eligible ones, identical
\* content yields no Issue, and every line of a path the last Iteration
\* does not hold is eligible.
C16_DriftOnlyAddedLines ==
    (pc = "drift_scanned" /\ state.iterations # <<>>) =>
        LET f == state.current_files[1]
            new == f.content
            prev == state.iterations[1].files[1]
            present == prev.path = f.path
            old == IF present THEN prev.content ELSE <<>>
            issues == state.security_issues
            flagged == {issues[k].line : k \in 1..Len(issues)}
        IN  /\ \A k \in 1..Len(issues) :
                   /\ issues[k].line \in state.added
                   /\ issues[k].file = f.path
                   /\ issues[k].message = "[patch-drift] "
                   /\ issues[k].rule \in matching_rules(new[issues[k].line].text)
                   /\ \A r \in matching_rules(new[issues[k].line].text) :
                          issues[k].rule <= r
            /\ \A k \in 1..Len(issues), q \in 1..Len(issues) :
                   k < q => issues[k].line < issues[q].line
            /\ \A n \in state.added :
                   matching_rules(new[n].text) # {} => n \in flagged
            /\ state.added \subseteq 1..Len(new)
            /\ (old # new) =>
                   \A n \in (1..Len(new)) \ state.added :
                       \E m \in 1..Len(old) : old[m] = new[n]
            /\ (Len(old) < Len(new) /\ SubSeq(new, 1, Len(old)) = old) =>
                   state.added = (Len(old) + 1)..Len(new)
            /\ (old = new) => issues = <<>>
            /\ (~present /\ new # <<>>) => state.added = 1..Len(new)

\* A line matched by two rules was appended to a file of the last Iteration
\* whose first line, matched by a rule as well, is unchanged: the scan
\* reports the appended line only, under the first of its rules.
C16_Witness ==
    /\ pc = "drift_scanned"
    /\ state.iterations # <<>>
    /\ state.iterations[1].files[1] =
           FileEntry("app.py", <<[text |-> "password = 'p'", end |-> "\n"]>>)
    /\ state.current_files[1].content =
           <<[text |-> "password = 'p'", end |-> "\n"],
             [text |-> "password = 'p'; eval(x)", end |-> "\n"]>>
    /\ state.added = {2}
    /\ Len(state.security_issues) = 1
    /\ state.security_issues[1].line = 2
    /\ state.security_issues[1].rule = 1


\* The Issue the claim expects for line n of the diff d, an added line that
\* a rule matches: the file of the most recent "+++ " header ("unknown"
\* without one), the new-file start of the hunk header (1 without one)
\* advanced by the lines since then that are not removed lines, and the
\* first of the matching rules.
ExpectedDiffIssue(d, n) ==
    LET IsHeader(m) == startswith(d[m], <<"+", "+", "+", " ">>)
        IsHunk(m) == startswith(d[m], <<"@@", " ">>)
        headers == {m \in 1..(n - 1) : IsHeader(m)}
        resets == {m \in 1..(n - 1) : IsHeader(m) \/ IsHunk(m)}
        h == CHOOSE m \in headers : \A q \in headers : m >= q
        r == IF resets = {} THEN 0
             ELSE CHOOSE m \in resets : \A q \in resets : m >= q
        start == IF r > 0 /\ IsHunk(r) /\ \E k \in 1..Len(d[r]) : d[r][k] = "+3"
                 THEN 3 ELSE 1
        rules == line_rules(Tail(d[n]))
    IN  [file |-> IF headers = {} THEN <<"unknown">>
                  ELSE IF d[h][5] = "b/" THEN SubSeq(d[h], 6, Len(d[h]))
                  ELSE SubSeq(d[h], 5, Len(d[h])),
         line |-> start + Cardinality({m \in (r + 1)..(n - 1) :
                                          d[m][1] # "-"}),
         rule |-> CHOOSE x \in rules : \A q \in rules : x <= q]

\* C17: scan_diff yields one Issue for every line that starts with "+", is
\* no "+++ " header and is matched by a rule, in the order of the lines and
\* none besides: removed lines, context lines and headers yield none.  Each
\* Issue names the file of the most recent header, the line number counted
\* from the hunk header over the lines that are not removed, and carries the
\* "[diff] " prefix.
C17_DiffOnlyAddedLines ==
    pc = "diff_scanned" =>
        LET d == state.diff_text
            added == {n \in 1..Len(d) :
                         /\ d[n][1] = "+"
                         /\ ~startswith(d[n], <<"+", "+", "+", " ">>)
                         /\ line_rules(Tail(d[n])) # {}}
            nth(k) == CHOOSE n \in added :
                          Cardinality({m \in added : m < n}) = k - 1
        IN  /\ Len(state.issues) = Cardinality(added)
            /\ \A k \in 1..Len(state.issues) :
                   LET e == ExpectedDiffIssue(d, nth(k)) IN
                   /\ state.issues[k].file = e.file
                   /\ state.issues[k].line = e.line
                   /\ state.issues[k].rule = e.rule
                   /\ state.issues[k].message = "[diff] "

\* A diff with a file header, a hunk header that starts at line 3, a context
\* line that a rule matches and an added line that two rules match was
\* scanned: one Issue, for app.py line 4, under the first rule.
C17_Witness ==
    /\ pc = "diff_scanned"
    /\ state.diff_text = <<<<"+", "+", "+", " ", "b/", "app.py">>,
                           <<"@@", " ", "-1", " ", "+3", " ", "@@">>,
                           <<" ", "password = 'p'">>,
                           <<"+", "password = 'p'; eval(x)">>>>
    /\ Len(state.issues) = 1
    /\ state.issues[1].file = <<"app.py">>
    /\ state.issues[1].line = 4
    /\ state.issues[1].rule = 1


\* Where the file name f_path leads from the directory output_dir.
LeadsTo(output_dir, f_path) ==
    IF f_path # <<>> /\ f_path[1] = "/" THEN joinrealpath(<<>>, split(f_path))
    ELSE joinrealpath(joinrealpath(<<>>, split(output_dir)), split(f_path))

\* A location strictly below the directory output_dir.
StrictlyInside(output_dir, location) ==
    LET root == joinrealpath(<<>>, split(output_dir))
    IN  /\ Len(location) > Len(root)
        /\ SubSeq(location, 1, Len(root)) = root

\* C18: write_files writes a file only at a location strictly inside
\* output_dir, and when the path of some file of current_files leads
\* elsewhere (through "..", an absolute path or a symbolic link) it raises
\* an error and no file exists at that location.
C18_WritesOnlyInsideOutputDir ==
    pc = "written" =>
        /\ \A location \in state.fs.files :
               /\ state.output_dir # <<>>
               /\ StrictlyInside(state.output_dir, location)
        /\ \A k \in 1..Len(state.current_files) :
               LET location == LeadsTo(state.output_dir,
                                       state.current_files[k].path)
               IN  (/\ state.output_dir # <<>>
                    /\ ~StrictlyInside(state.output_dir, location))
                   => /\ state.result.exc # "None"
                      /\ location \notin state.fs.files

\* A first file was written inside, then a path through the link to /etc
\* was refused.
C18_Witness ==
    /\ pc = "written"
    /\ state.output_dir = <<"/", "outlink">>
    /\ Len(state.current_files) = 2
    /\ state.current_files[2].path = <<"link", "/", "x">>
    /\ state.result.exc = "ValueError"
    /\ state.fs.files = {<<(<<"out">>), <<"x">>>>}


\* The k-th Iteration of s as a reader sees it: its number, the path and
\* content of each of its files, its issues and its three flags.
IterationRead(s, k) ==
    LET it == s.iterations[k]
    IN  [it EXCEPT !.files = [j \in 1..Len(it.files) |->
                                 FileEntry(it.files[j].path,
                                           s.heap[it.files[j].ref])]]

\* C19: an Iteration, once appended, reads the same after every later
\* run_iteration on the same state: number, files (paths and contents),
\* issues and the three flags.
C19_IterationsImmutable ==
    [][\A k \in 1..Len(state.iterations) :
           IterationRead(state', k) = IterationRead(state, k)]_vars


\* C20: the k-th Iteration of the state has number k.
C20_NumbersContiguous ==
    \A k \in 1..Len(state.iterations) : state.iterations[k].number = k

\* A state filled up to the ceiling by run_iteration calls, the last of
\* which did not pass the gate.
C20_Witness ==
    /\ op = "run_iteration"
    /\ Len(state.iterations) = hard_max_iterations
    /\ Last(state.iterations).number = hard_max_iterations
    /\ state.status = "awaiting_approval"
    /\ state.errors = <<>>


\* The number of README.md entries of a file list.
ReadmeCount(files) ==
    Cardinality({k \in 1..Len(files) : files[k].path = "README.md"})

\* C21: the README writer adds its file only when status is "done" (in
\* run_full, the status at the call of generate_readme after the loop; in
\* /api/iterate, the status run_iteration returned), and current_files
\* never holds two README.md entries.
C21_ReadmeOnlyWhenDone ==
    [][/\ ReadmeCount(state'.current_files) <= 1
       /\ ReadmeCount(state'.current_files) > ReadmeCount(state.current_files)
              => IF pc = "finish" THEN state.status = "done"
                 ELSE state'.status = "done"]_vars


Occurrences(s, x) == Cardinality({k \in 1..Len(s) : s[k] = x})

\* C23: after a gate failure patch_instructions lists exactly the error and
\* warning issues of the new Iteration, every error before every warning
\* and, within a severity, in non-decreasing order of file; it is empty
\* when the Iteration has no error or warning issue.
C23_PatchInstructions ==
    (pc = "patched" /\ state.status = "awaiting_approval") =>
        LET issues == Last(state.iterations).issues
            listed == state.patch_instructions
            Actionable(i) == i.severity \in {"error", "warning"}
        IN  /\ \A k \in 1..Len(listed) :
                   /\ Actionable(listed[k])
                   /\ Occurrences(issues, listed[k])
                          = Occurrences(listed, listed[k])
            /\ \A k \in 1..Len(issues) :
                   Actionable(issues[k]) =>
                       Occurrences(listed, issues[k])
                           = Occurrences(issues, issues[k])
            /\ \A j \in 1..Len(listed) : \A k \in (j + 1)..Len(listed) :
                   /\ listed[k].severity = "error"
                          => listed[j].severity = "error"
                   /\ listed[j].severity = listed[k].severity
                          => PathRank(listed[j].file) <= PathRank(listed[k].file)

\* A warning on app.py, an info issue and an error on requirements.txt
\* were composed into two instructions, the error first.
C23_Witness ==
    /\ pc = "patched"
    /\ state.status = "awaiting_approval"
    /\ Last(state.iterations).issues =
           <<Issue("reviewer", "warning", "app.py"),
             Issue("security", "info", "app.py"),
             Issue("security", "error", "requirements.txt")>>
    /\ state.patch_instructions =
           <<Issue("security", "error", "requirements.txt"),
             Issue("reviewer", "warning", "app.py")>>


\* C24: rules are evaluated only against files of their own kind: no Issue
\* of SecurityAgent.run names a markup/template rule for a .py file or a
\* general-source rule for a markup/template file.
C24_RulesByKind ==
    pc = "kinds_scanned" =>
        \A k \in 1..Len(state.security_issues) :
            LET i == state.security_issues[k] IN
            /\ i.file = "app.py" => i.rule \notin HTML_SECURITY_PATTERNS
            /\ i.file = "templates/a.html" => i.rule \notin SECURITY_PATTERNS


\* C25: every external process started for the dependency-vulnerability
\* auditor and for the static-analysis tool (the binary is installed, so
\* the call does start a process) is started through run_in_sandbox.
C25_ToolsThroughSandbox ==
    pc = "tools" =>
        \A k \in 1..Len(state.started) :
            LET start == state.started[k]
                outcome == IF start.command = "pip-audit"
                           THEN state.pip_audit ELSE state.semgrep
            IN  outcome.kind # "FileNotFoundError" =>
                    start.function = "run_in_sandbox"


\* C26: in every reachable state no two entries of state.current_files have
\* the same path, whatever the generator parsed, merged or appended.
C26_NoDuplicatePaths ==
    pc = "files" =>
        \A j \in 1..Len(state.current_files), k \in 1..Len(state.current_files) :
            j # k => state.current_files[j].path # state.current_files[k].path


\* C27: the issues of each new Iteration are the review issues, then the
\* test issues, then the security issues that the stages of the same
\* run_iteration call produced, for one of the outcomes the collaborators
\* can have; a reviewer that was handed no file produced no issue.
C27_IssuesOfThisCall ==
    [][Len(state'.iterations) = Len(state.iterations) + 1 =>
          LET iteration == Last(state'.iterations) IN
          \E o \in Outcomes :
              /\ iteration.files =
                     AutoFixAll(generator_run(state, o.parsed).current_files)
              /\ iteration.issues =
                     (IF iteration.files = <<>> THEN <<>> ELSE o.review)
                     \o o.test \o o.security]_vars


\* C28: under any interleaving of /api/iterate requests for one job at most
\* one run_iteration is in progress on its state at a time, and the job's
\* number of iterations never exceeds min(max_iterations, hard ceiling).
C28_OneIterationAtATime ==
    pc = "serving" =>
        /\ Cardinality({t \in Requests : state.requests[t].at = "stages"}) <= 1
        /\ Len(state.job.iterations)
               <= Min(state.job.max_iterations, hard_max_iterations)


\* C29: after every _store_job call the store holds at most _MAX_JOBS jobs,
\* and the jobs a call evicts for capacity (they have not expired) are the
\* oldest: every job that stays was stored no earlier than an evicted one.
C29_StoreBounded ==
    [][op' = "api_generate" =>
          LET kept == {state'.jobs[k].job_id : k \in 1..Len(state'.jobs)}
              evicted == {j \in 1..Len(state.jobs) :
                             /\ ~(state.now - state.jobs[j].created > _JOB_TTL)
                             /\ state.jobs[j].job_id \notin kept}
          IN  /\ Len(state'.jobs) <= _MAX_JOBS
              /\ \A j \in evicted, k \in 1..Len(state.jobs) :
                     state.jobs[k].job_id \in kept =>
                         state.jobs[j].created <= state.jobs[k].created]_vars


\* C30: a job whose age exceeds _JOB_TTL is never served: iterate, approve,
\* status and deploy answer a request for it with 404, start no
\* collaborator on its state and leave the state as it is.
C30_ExpiredNeverServed ==
    [][op' \in {"api_iterate", "api_approve", "api_status", "api_deploy"} =>
          \A k \in find_job(state.jobs, state'.response.job_id) :
              state.now - state.jobs[k].created > _JOB_TTL =>
                  /\ state'.response.code = 404
                  /\ calls' = <<>>
                  /\ \A m \in find_job(state'.jobs, state'.response.job_id) :
                         state'.jobs[m].state = state.jobs[k].state]_vars

====
